---- MODULE Spec2Model ----
(***************************************************************************)
(* A model of the crawl pipeline of the web crawler: the frontier          *)
(* (Scheduler), the two-tier deduplicator (Deduplicator), the fetch        *)
(* adapter's counters (Fetcher), the tokenizer of the Parser, the Indexer  *)
(* and the orchestrator loop of main().                                    *)
(*                                                                         *)
(* Spec is the run of main(); DedupSpec, SchedulerSpec, IndexerSpec and    *)
(* SerialIndexerSpec call one component through its public interface;      *)
(* FrontierSpec and FairFrontierSpec run the Scheduler under concurrent    *)
(* callers, the latter with the fairness of the thread scheduler.          *)
(* SearchSpec indexes documents and searches them, CanonSpec applies       *)
(* UrlUtils::canonicalize to bounded strings, FetchSpec follows redirect   *)
(* chains in Fetcher::fetch, and LockSpec interleaves the statements of    *)
(* the Scheduler's calls that take queue_mutex_ and backoff_mutex_.        *)
(* SnapshotSpec interleaves the writes of index_document with search,      *)
(* FlushSpec calls flush_segment and merge_segments between documents,     *)
(* ParseSpec tokenizes bounded texts, and FairProducerSpec is              *)
(* FairFrontierSpec with a producer that is always scheduled again.        *)
(*                                                                         *)
(* A std::string is the sequence of its bytes (0..255); Str turns a tuple   *)
(* of one-character strings into it.  Times are steady_clock readings in   *)
(* milliseconds.  64-bit unsigned values are four 16-bit limbs, least      *)
(* significant first, so that arithmetic modulo 2^64 is exact.             *)
(***************************************************************************)
EXTENDS Integers, Sequences, FiniteSets, TLC

\* ------------------------------------------------------------------------
\* Bounds of the model
\* ------------------------------------------------------------------------
MaxTime == 5000
MaxOps == 2
MaxCalls == 3
MaxDocs == 3
MaxSerialDocs == 8

\* the number of documents indexed before and between the searches
MaxSearchDocs == 3

\* the length of the longest of the strings given to canonicalize one by one
MaxUrlLen == 4

\* the largest value given to set_max_redirects, and the number of fetch calls
MaxRedirectsSet == 2
MaxFetchCalls == 2

\* the number of add_url and mark_failed calls of one caller thread
MaxLockCalls == 1

\* the number of index_document calls made beside the searches
MaxSnapshotDocs == 2

\* the number of index_document calls made between the flush_segment calls
MaxFlushDocs == 3

\* the length of the longest of the texts given to the tokenizer
MaxTextLen == 5
MaxApiTime == 2000

\* ------------------------------------------------------------------------
\* Characters and strings
\* ------------------------------------------------------------------------
Ord(c) ==
    CASE c = " " -> 32  [] c = "!" -> 33  [] c = "#" -> 35  [] c = "." -> 46
      [] c = "/" -> 47  [] c = "0" -> 48  [] c = "1" -> 49  [] c = "2" -> 50
      [] c = ":" -> 58  [] c = "?" -> 63  [] c = "B" -> 66  [] c = "a" -> 97
      [] c = "b" -> 98  [] c = "c" -> 99  [] c = "f" -> 102 [] c = "d" -> 100 [] c = "g" -> 103
      [] c = "C" -> 67  [] c = "8" -> 56  [] c = "=" -> 61  [] c = "&" -> 38 [] c = "h" -> 104
      [] c = "m" -> 109 [] c = "o" -> 111 [] c = "p" -> 112 [] c = "s" -> 115
      [] c = "t" -> 116 [] c = "x" -> 120 [] c = "y" -> 121
      [] c = "_" -> 95

Str(t) == [i \in 1..Len(t) |-> Ord(t[i])]

\* the value of a byte read as a (signed) char
SChar(b) == IF b >= 128 THEN b - 256 ELSE b

\* std::isspace in the C locale
IsSpace(b) == b = 32 \/ (b >= 9 /\ b <= 13)

IsDigit(b) == b >= 48 /\ b <= 57

StartsWithAt(s, i, p) ==
    /\ i + Len(p) - 1 <= Len(s)
    /\ SubSeq(s, i, i + Len(p) - 1) = p

\* std::string::find(char): the first index holding c, 0 when there is none
FindChar(s, c) ==
    IF \E i \in 1..Len(s) : s[i] = c
    THEN CHOOSE i \in 1..Len(s) : s[i] = c /\ \A j \in 1..(i - 1) : s[j] # c
    ELSE 0

\* std::string::find_last_of(char)
FindLastChar(s, c) ==
    IF \E i \in 1..Len(s) : s[i] = c
    THEN CHOOSE i \in 1..Len(s) : s[i] = c /\ \A j \in (i + 1)..Len(s) : s[j] # c
    ELSE 0

HttpPrefix == Str(<<"h", "t", "t", "p", ":", "/", "/">>)
HttpsPrefix == Str(<<"h", "t", "t", "p", "s", ":", "/", "/">>)

\* ------------------------------------------------------------------------
\* HashUtils
\* ------------------------------------------------------------------------
LimbBase == 65536

U64(n) == <<n % LimbBase, (n \div LimbBase) % LimbBase, 0, 0>>

\* hash = ((hash << 5) + hash) + c  modulo 2^64; c is a (signed) char
Mul33Add(h, c) ==
    LET v1 == h[1] * 33 + c
        v2 == h[2] * 33 + (v1 \div LimbBase)
        v3 == h[3] * 33 + (v2 \div LimbBase)
        v4 == h[4] * 33 + (v3 \div LimbBase)
    IN  <<v1 % LimbBase, v2 % LimbBase, v3 % LimbBase, v4 % LimbBase>>

RECURSIVE xxhashFrom(_, _, _)
xxhashFrom(h, data, i) ==
    IF i > Len(data) THEN h
    ELSE xxhashFrom(Mul33Add(h, SChar(data[i])), data, i + 1)

xxhash(data) == xxhashFrom(U64(5381), data, 1)

hash_url(url) == xxhash(url)

hash_content(content) == xxhash(content)

\* ------------------------------------------------------------------------
\* UrlUtils
\* ------------------------------------------------------------------------
\* a canonicalize that cuts at the last '#'
canonicalize_cuts_at_last_fragment(url) ==
    LET marks == {i \in 1..Len(url) : url[i] = Ord("#")}
        frag_pos == IF marks = {} THEN 0 ELSE CHOOSE i \in marks : \A j \in marks : j <= i
    IN  IF frag_pos # 0 THEN SubSeq(url, 1, frag_pos - 1) ELSE url

canonicalize(url) ==
    LET frag_pos == FindChar(url, Ord("#"))
    IN  IF frag_pos # 0 THEN SubSeq(url, 1, frag_pos - 1) ELSE url

\* the length of the scheme prefix "http://" or "https://" matched at i, or 0
SchemeLenAt(s, i) ==
    IF StartsWithAt(s, i, HttpsPrefix) THEN Len(HttpsPrefix)
    ELSE IF StartsWithAt(s, i, HttpPrefix) THEN Len(HttpPrefix)
    ELSE 0

\* regex_search of https?://([^/]+) succeeds at position i
DomainMatchAt(s, i) ==
    LET n == SchemeLenAt(s, i)
    IN  n > 0 /\ i + n <= Len(s) /\ s[i + n] # Ord("/")

extract_domain(url) ==
    IF \E i \in 1..Len(url) : DomainMatchAt(url, i)
    THEN LET i == CHOOSE k \in 1..Len(url) :
                      DomainMatchAt(url, k) /\ \A j \in 1..(k - 1) : ~DomainMatchAt(url, j)
             from == i + SchemeLenAt(url, i)
             rest == SubSeq(url, from, Len(url))
             slash == FindChar(rest, Ord("/"))
         IN  IF slash = 0 THEN rest ELSE SubSeq(rest, 1, slash - 1)
    ELSE <<>>

\* regex_match of https?://[^\s]+ against the whole string
is_valid(url) ==
    LET n == SchemeLenAt(url, 1)
    IN  /\ n > 0
        /\ Len(url) > n
        /\ \A i \in (n + 1)..Len(url) : ~IsSpace(url[i])

resolve(base_url, relative_url) ==
    IF relative_url = <<>> THEN base_url
    ELSE IF StartsWithAt(relative_url, 1, HttpPrefix) \/ StartsWithAt(relative_url, 1, HttpsPrefix)
    THEN relative_url
    ELSE IF relative_url[1] = Ord("/")
    THEN extract_domain(base_url) \o relative_url
    ELSE LET last_slash == FindLastChar(base_url, Ord("/"))
         IN  IF last_slash # 0
             THEN SubSeq(base_url, 1, last_slash) \o relative_url
             ELSE base_url \o <<Ord("/")>> \o relative_url

\* ------------------------------------------------------------------------
\* std::stoull on the content-hash string
\* ------------------------------------------------------------------------
U64Zero == <<0, 0, 0, 0>>

\* 10 * h + d on limbs; overflow past 2^64 is reported in the field ovf
Mul10Add(h, d) ==
    LET v1 == h[1] * 10 + d
        v2 == h[2] * 10 + (v1 \div LimbBase)
        v3 == h[3] * 10 + (v2 \div LimbBase)
        v4 == h[4] * 10 + (v3 \div LimbBase)
    IN  [val |-> <<v1 % LimbBase, v2 % LimbBase, v3 % LimbBase, v4 % LimbBase>>,
         ovf |-> v4 \div LimbBase > 0]

\* two's complement negation, as strtoull applies to a leading '-'
U64Neg(h) ==
    LET v1 == (LimbBase - 1 - h[1]) + 1
        v2 == (LimbBase - 1 - h[2]) + (v1 \div LimbBase)
        v3 == (LimbBase - 1 - h[3]) + (v2 \div LimbBase)
        v4 == (LimbBase - 1 - h[4]) + (v3 \div LimbBase)
    IN  <<v1 % LimbBase, v2 % LimbBase, v3 % LimbBase, v4 % LimbBase>>

RECURSIVE SkipSpaces(_, _)
SkipSpaces(s, i) ==
    IF i <= Len(s) /\ IsSpace(s[i]) THEN SkipSpaces(s, i + 1) ELSE i

RECURSIVE ParseDigits(_, _, _, _)
ParseDigits(s, i, acc, ovf) ==
    IF i <= Len(s) /\ IsDigit(s[i])
    THEN LET r == Mul10Add(acc, s[i] - 48)
         IN  ParseDigits(s, i + 1, r.val, ovf \/ r.ovf)
    ELSE [val |-> acc, ovf |-> ovf]

\* [ok |-> FALSE] stands for the exception (invalid_argument or out_of_range)
stoull(s) ==
    LET i == SkipSpaces(s, 1)
        signed == i <= Len(s) /\ s[i] \in {43, 45}
        neg == signed /\ s[i] = 45
        j == IF signed THEN i + 1 ELSE i
        r == ParseDigits(s, j, U64Zero, FALSE)
    IN  IF j > Len(s) \/ ~IsDigit(s[j]) \/ r.ovf
        THEN [ok |-> FALSE, val |-> U64Zero]
        ELSE [ok |-> TRUE, val |-> IF neg THEN U64Neg(r.val) ELSE r.val]

\* try { hash = std::stoull(content_hash); } catch (...) { hash = hash_content(content_hash); }
ContentKey(content_hash) ==
    LET r == stoull(content_hash)
    IN  IF r.ok THEN r.val ELSE hash_content(content_hash)

\* the C string that printf-style %s sends for s.c_str(): the bytes before the first NUL
CStr(s) ==
    LET z == FindChar(s, 0)
    IN  IF z = 0 THEN s ELSE SubSeq(s, 1, z - 1)

\* "dedup:url:" + std::to_string(url_hash) and "dedup:content:" + content_hash
UrlRedisKey(url_hash) == <<"dedup:url:", url_hash>>
ContentRedisKey(content_hash) == <<"dedup:content:", CStr(content_hash)>>

\* ------------------------------------------------------------------------
\* Deduplicator
\*
\* The methods are operators from the object's state d, the remote key set
\* kv and the outcome of the redisCommand the call may issue (fail: the
\* reply is a null pointer) to a record [ret, d, kv, cmds]: the returned
\* value, the object's new state, the remote key set, and the number of
\* remote commands the call issued.  The 24 hour expiry of the remote keys
\* lies beyond the time the model covers.
\* ------------------------------------------------------------------------
DedupInit ==
    [redis_available_ |-> FALSE, use_local_fallback_ |-> FALSE, redis_context_ |-> FALSE,
     local_url_set_ |-> {}, local_content_set_ |-> {},
     url_duplicates_ |-> 0, content_duplicates_ |-> 0,
     redis_hits_ |-> 0, redis_misses_ |-> 0]

Res(ret, d, kv, cmds) == [ret |-> ret, d |-> d, kv |-> kv, cmds |-> cmds]

\* connected: redisConnect returned a context without error
init_redis(d, kv, connected) ==
    IF ~connected
    THEN Res(FALSE, [d EXCEPT !.redis_available_ = FALSE], kv, 0)
    ELSE Res(TRUE, [d EXCEPT !.redis_context_ = TRUE, !.redis_available_ = TRUE], kv, 0)

enable_local_fallback(d, kv, enable) ==
    Res(TRUE, [d EXCEPT !.use_local_fallback_ = enable], kv, 0)

\* check_redis_url without the transition to unavailable on a null reply
check_redis_url_keeps_available(d, kv, key, fail) ==
    IF ~d.redis_context_ THEN Res(FALSE, d, kv, 0)
    ELSE IF fail THEN Res(FALSE, d, kv, 1)
    ELSE Res(key \in kv, d, kv, 1)

check_redis_url(d, kv, key, fail) ==
    IF ~d.redis_context_ THEN Res(FALSE, d, kv, 0)
    ELSE IF fail THEN Res(FALSE, [d EXCEPT !.redis_available_ = FALSE], kv, 1)
    ELSE Res(key \in kv, d, kv, 1)

check_redis_content(d, kv, key, fail) ==
    IF ~d.redis_context_ THEN Res(FALSE, d, kv, 0)
    ELSE IF fail THEN Res(FALSE, [d EXCEPT !.redis_available_ = FALSE], kv, 1)
    ELSE Res(key \in kv, d, kv, 1)

mark_redis_url(d, kv, key, fail) ==
    IF ~d.redis_context_ THEN Res(TRUE, d, kv, 0)
    ELSE IF fail THEN Res(TRUE, [d EXCEPT !.redis_available_ = FALSE], kv, 1)
    ELSE Res(TRUE, d, kv \cup {key}, 1)

mark_redis_content(d, kv, key, doc_id, fail) ==
    IF ~d.redis_context_ THEN Res(TRUE, d, kv, 0)
    ELSE IF fail THEN Res(TRUE, [d EXCEPT !.redis_available_ = FALSE], kv, 1)
    ELSE Res(TRUE, d, kv \cup {key}, 1)

is_url_seen(d, kv, url, fail) ==
    LET canonical == canonicalize(url)
        url_hash == hash_url(canonical)
        r == IF d.redis_available_
             THEN check_redis_url(d, kv, UrlRedisKey(url_hash), fail)
             ELSE Res(FALSE, d, kv, 0)
    IN  IF d.redis_available_ /\ r.ret
        THEN Res(TRUE, [r.d EXCEPT !.redis_hits_ = @ + 1, !.url_duplicates_ = @ + 1], kv, r.cmds)
        ELSE LET d1 == IF d.redis_available_
                       THEN [r.d EXCEPT !.redis_misses_ = @ + 1] ELSE r.d
             IN  IF (d1.use_local_fallback_ \/ ~d1.redis_available_)
                    /\ url_hash \in d1.local_url_set_
                 THEN Res(TRUE, [d1 EXCEPT !.url_duplicates_ = @ + 1], kv, r.cmds)
                 ELSE Res(FALSE, d1, kv, r.cmds)

mark_url_seen(d, kv, url, fail) ==
    LET canonical == canonicalize(url)
        url_hash == hash_url(canonical)
        r == IF d.redis_available_
             THEN mark_redis_url(d, kv, UrlRedisKey(url_hash), fail)
             ELSE Res(TRUE, d, kv, 0)
        d1 == r.d
    IN  IF d1.use_local_fallback_ \/ ~d1.redis_available_
        THEN Res(TRUE, [d1 EXCEPT !.local_url_set_ = @ \cup {url_hash}], r.kv, r.cmds)
        ELSE Res(TRUE, d1, r.kv, r.cmds)

is_content_seen(d, kv, content_hash, fail) ==
    LET hash == ContentKey(content_hash)
        r == IF d.redis_available_
             THEN check_redis_content(d, kv, ContentRedisKey(content_hash), fail)
             ELSE Res(FALSE, d, kv, 0)
    IN  IF d.redis_available_ /\ r.ret
        THEN Res(TRUE, [r.d EXCEPT !.redis_hits_ = @ + 1, !.content_duplicates_ = @ + 1], kv, r.cmds)
        ELSE LET d1 == IF d.redis_available_
                       THEN [r.d EXCEPT !.redis_misses_ = @ + 1] ELSE r.d
             IN  IF (d1.use_local_fallback_ \/ ~d1.redis_available_)
                    /\ hash \in d1.local_content_set_
                 THEN Res(TRUE, [d1 EXCEPT !.content_duplicates_ = @ + 1], kv, r.cmds)
                 ELSE Res(FALSE, d1, kv, r.cmds)

mark_content_seen(d, kv, content_hash, doc_id, fail) ==
    LET hash == ContentKey(content_hash)
        r == IF d.redis_available_
             THEN mark_redis_content(d, kv, ContentRedisKey(content_hash), doc_id, fail)
             ELSE Res(TRUE, d, kv, 0)
        d1 == r.d
    IN  IF d1.use_local_fallback_ \/ ~d1.redis_available_
        THEN Res(TRUE, [d1 EXCEPT !.local_content_set_ = @ \cup {hash}], r.kv, r.cmds)
        ELSE Res(TRUE, d1, r.kv, r.cmds)

\* ------------------------------------------------------------------------
\* std::priority_queue<CrawlTask>: a binary max-heap in a vector, ordered by
\* CrawlTask::operator< (priority only), with the heap algorithms of
\* libstdc++ (std::push_heap, std::pop_heap).  Indices are 0-based as in
\* the library; At(c, i) is c[i].
\* ------------------------------------------------------------------------
TaskLess(a, b) == a.priority < b.priority

At(c, i) == c[i + 1]

Put(c, i, v) == [c EXCEPT ![i + 1] = v]

RECURSIVE PushHeap(_, _, _, _)
PushHeap(c, holeIndex, topIndex, value) ==
    LET parent == (holeIndex - 1) \div 2
    IN  IF holeIndex > topIndex /\ TaskLess(At(c, parent), value)
        THEN PushHeap(Put(c, holeIndex, At(c, parent)), parent, topIndex, value)
        ELSE Put(c, holeIndex, value)

RECURSIVE AdjustDown(_, _, _, _)
\* the loop of __adjust_heap: returns the vector and the final hole
AdjustDown(c, holeIndex, secondChild, len) ==
    IF secondChild < (len - 1) \div 2
    THEN LET sc0 == 2 * (secondChild + 1)
             sc == IF TaskLess(At(c, sc0), At(c, sc0 - 1)) THEN sc0 - 1 ELSE sc0
         IN  AdjustDown(Put(c, holeIndex, At(c, sc)), sc, sc, len)
    ELSE [c |-> c, hole |-> holeIndex, second |-> secondChild]

AdjustHeap(c, holeIndex, len, value) ==
    LET r == AdjustDown(c, holeIndex, holeIndex, len)
        r2 == IF len % 2 = 0 /\ r.second = (len - 2) \div 2
              THEN LET sc == 2 * (r.second + 1)
                   IN  [c |-> Put(r.c, r.hole, At(r.c, sc - 1)), hole |-> sc - 1]
              ELSE [c |-> r.c, hole |-> r.hole]
    IN  PushHeap(r2.c, r2.hole, holeIndex, value)

\* task_queue_.push(task)
QueuePush(q, t) == PushHeap(Append(q, t), Len(q), 0, t)

\* task_queue_.top()
QueueTop(q) == q[1]

\* task_queue_.pop()
QueuePop(q) ==
    IF Len(q) <= 1 THEN <<>>
    ELSE LET n == Len(q)
             value == q[n]
             moved == Put(q, n - 1, q[1])
         IN  SubSeq(AdjustHeap(moved, 0, n - 1, value), 1, n - 1)

\* ------------------------------------------------------------------------
\* Scheduler
\*
\* The methods are operators from the object's state s and the reading t of
\* steady_clock::now() to the new state (and the returned value).
\* ------------------------------------------------------------------------
scheduler_max_retries_ == 3
scheduler_retry_backoff_ms_ == 1000
politeness_delay_ms == 1000
wait_sleep_ms == 100
loop_sleep_ms == 100

\* a default-constructed CrawlTask
CrawlTask == [url |-> <<>>, priority |-> 0, retry_count |-> 0, next_retry_time |-> 0]

worker_threads_ == 8

\* workers_ is the number of thread objects the vector holds
SchedulerInit ==
    [task_queue_ |-> <<>>, domain_backoff_ |-> <<>>, workers_ |-> 0, running_ |-> FALSE,
     total_scheduled_ |-> 0, total_completed_ |-> 0, total_failed_ |-> 0]

add_url(s, url, priority, t) ==
    LET normalized == canonicalize(url)
        new_task == [url |-> normalized, priority |-> priority,
                     retry_count |-> 0, next_retry_time |-> t]
    IN  IF ~is_valid(normalized)
        THEN [ret |-> FALSE, s |-> s]
        ELSE [ret |-> TRUE,
              s |-> [s EXCEPT !.task_queue_ = QueuePush(@, new_task),
                              !.total_scheduled_ = @ + 1]]

RECURSIVE add_seed_urls_from(_, _, _, _)
add_seed_urls_from(s, urls, i, t) ==
    IF i > Len(urls) THEN [ret |-> TRUE, s |-> s]
    ELSE LET r == add_url(s, urls[i], 0, t)
         IN  IF ~r.ret THEN [ret |-> FALSE, s |-> r.s]
             ELSE add_seed_urls_from(r.s, urls, i + 1, t)

add_seed_urls(s, urls, t) == add_seed_urls_from(s, urls, 1, t)

update_domain_backoff(s, domain, t) ==
    [s EXCEPT !.domain_backoff_ =
        [d \in (DOMAIN @) \cup {domain} |->
            IF d = domain THEN t + politeness_delay_ms ELSE @[d]]]

can_fetch_domain(s, domain, t) ==
    IF domain \notin DOMAIN s.domain_backoff_ THEN TRUE
    ELSE t >= s.domain_backoff_[domain]

\* a get_next_task that keeps the task of a domain in backoff out of the queue
get_next_task_drops_backed_off(s, old_task, t) ==
    IF s.task_queue_ = <<>>
    THEN [ret |-> FALSE, s |-> s, task |-> old_task]
    ELSE LET top == s.task_queue_[1]
             popped == [s EXCEPT !.task_queue_ = QueuePop(@)]
         IN  IF t < top.next_retry_time
             THEN [ret |-> FALSE, s |-> s, task |-> top]
             ELSE [ret |-> IF top.url \in DOMAIN s.domain_backoff_
                           THEN t >= s.domain_backoff_[top.url] ELSE TRUE,
                   s |-> popped, task |-> top]

\* get_next_task once the wait loop is left; the parameter old_task is the
\* caller's task object, which a call that returns before the pop leaves alone
get_next_task(s, old_task, t) ==
    IF s.task_queue_ = <<>>
    THEN [ret |-> FALSE, s |-> s, task |-> old_task]
    ELSE LET top == QueueTop(s.task_queue_)
             popped == [s EXCEPT !.task_queue_ = QueuePop(@)]
             back == [popped EXCEPT !.task_queue_ = QueuePush(@, top)]
         IN  IF t < top.next_retry_time
             THEN [ret |-> FALSE, s |-> back, task |-> top]
             ELSE IF ~can_fetch_domain(popped, extract_domain(top.url), t)
             THEN [ret |-> FALSE, s |-> back, task |-> top]
             ELSE [ret |-> TRUE, s |-> popped, task |-> top]

\* no task callback is ever set
mark_completed(s, url) == [s EXCEPT !.total_completed_ = @ + 1]

\* a mark_failed that counts the failure of a task it queues again
mark_failed_counts_retried(s, url, will_retry, t) ==
    LET retry == [CrawlTask EXCEPT !.url = url, !.retry_count = 1,
                      !.next_retry_time = t + scheduler_retry_backoff_ms_]
        counted == [s EXCEPT !.total_failed_ = @ + 1]
    IN  IF ~will_retry THEN counted
        ELSE [counted EXCEPT !.task_queue_ = QueuePush(@, retry),
                             !.domain_backoff_ =
                                 [d \in (DOMAIN @) \cup {extract_domain(url)} |->
                                     IF d = extract_domain(url) THEN t + politeness_delay_ms
                                     ELSE @[d]]]

mark_failed(s, url, will_retry, t) ==
    IF ~will_retry
    THEN [s EXCEPT !.total_failed_ = @ + 1]
    ELSE LET retry == [CrawlTask EXCEPT !.url = url, !.retry_count = 1,
                           !.next_retry_time = t + scheduler_retry_backoff_ms_]
             queued == [s EXCEPT !.task_queue_ = QueuePush(@, retry)]
         IN  update_domain_backoff(queued, extract_domain(url), t)

\* the worker threads return at once
start(s) == [s EXCEPT !.running_ = TRUE, !.workers_ = @ + worker_threads_]

\* stop, once every worker thread can be joined
stop(s) == [s EXCEPT !.running_ = FALSE, !.workers_ = 0]

queue_size(s) == Len(s.task_queue_)

\* ------------------------------------------------------------------------
\* Fetcher, Parser, Indexer and Storage as the orchestrator uses them
\* ------------------------------------------------------------------------
\* Fetcher::max_redirects_ as declared, and as Config gives it by default
max_redirects_default == 5

FetcherInit == [total_fetches_ |-> 0, successful_fetches_ |-> 0, failed_fetches_ |-> 0]

FetchResult == [success |-> FALSE, http_status |-> 0, content |-> <<>>, content_hash |-> <<>>]

\* result.content_hash = hash_content(result.content) assigns a uint64_t to a
\* std::string: std::string::operator=(char), the string of the one char that
\* the conversion of the hash to char leaves (its low byte)
HashToString(h) == <<h[1] % 256>>

\* fetch_impl as seen from fetch: the transport's final answer is the status
\* and the body; only a 2xx answer is a success and carries the body
fetch_impl(status, body) ==
    IF status >= 200 /\ status < 300
    THEN [FetchResult EXCEPT !.success = TRUE, !.http_status = status, !.content = body]
    ELSE [FetchResult EXCEPT !.http_status = status]

fetch(f, status, body) ==
    LET result == fetch_impl(status, body)
        f1 == [f EXCEPT !.total_fetches_ = @ + 1]
    IN  IF result.success
        THEN [f |-> [f1 EXCEPT !.successful_fetches_ = @ + 1],
              result |-> [result EXCEPT !.content_hash = HashToString(hash_content(result.content))]]
        ELSE [f |-> [f1 EXCEPT !.failed_fetches_ = @ + 1], result |-> result]

\* fetch_impl with its redirects.  responses are the answers of the servers
\* asked one after the other, the first that of the url of the call: each
\* [status, location, body], location being the Location url of a redirect,
\* <<>> when the answer names none.  A FetchResult with the two fields the
\* redirects write:
RedirectResult == [success |-> FALSE, http_status |-> 0, content |-> <<>>, content_hash |-> <<>>,
                   redirects |-> <<>>, error_message |-> ""]

\* a bound on the depth that is reached one redirect early
too_many_redirects_at_limit(redirect_count, max_redirects) == redirect_count >= max_redirects

\* "if (redirect_count > max_redirects_)"
too_many_redirects(redirect_count, max_redirects) == redirect_count > max_redirects

RECURSIVE fetch_impl_following(_, _, _)
fetch_impl_following(max_redirects, responses, redirect_count) ==
    IF too_many_redirects(redirect_count, max_redirects)
    THEN [RedirectResult EXCEPT !.error_message = "Too many redirects"]
    ELSE LET answer == Head(responses)
             result == [RedirectResult EXCEPT !.http_status = answer.status]
         IN  IF answer.status >= 200 /\ answer.status < 300
             THEN [result EXCEPT !.success = TRUE, !.content = answer.body]
             ELSE IF answer.status >= 300 /\ answer.status < 400 /\ answer.location # <<>>
             THEN LET redirect_result ==
                          fetch_impl_following(max_redirects, Tail(responses), redirect_count + 1)
                  IN  [redirect_result EXCEPT !.redirects = <<answer.location>> \o @]
             ELSE result

\* Fetcher::fetch on such a chain
fetch_following(f, max_redirects, responses) ==
    LET result == fetch_impl_following(max_redirects, responses, 0)
        f1 == [f EXCEPT !.total_fetches_ = @ + 1]
    IN  IF result.success
        THEN [f |-> [f1 EXCEPT !.successful_fetches_ = @ + 1],
              result |-> [result EXCEPT !.content_hash = HashToString(hash_content(result.content))]]
        ELSE [f |-> [f1 EXCEPT !.failed_fetches_ = @ + 1], result |-> result]

\* The pages of the modelled web: the body bytes, the href attributes of the
\* anchors the HTML parser finds in such a body, in document order, and the
\* text of its text nodes.  PageC is a body whose 64-bit digest differs from
\* PageA's in the bits above the low byte only.
PageA == Str(<<"a">>)
PageB == Str(<<"b">>)
PageC == Str(<<"1", "p">>)
Pages == {PageA, PageB, PageC}

Hrefs(content) ==
    IF content = PageA
    THEN <<Str(<<"h", "t", "t", "p", "s", ":", "/", "/", "a", ".", "c", "o", "m", "/", "1">>),
           Str(<<"/", "x">>),
           Str(<<"h", "t", "t", "p", "s", ":", "/", "/", "a", ".", "c", "o", "m", "/", "1", "#", "f">>)>>
    ELSE <<>>

\* Parser::extract_text: the text nodes of the body, each followed by a space
extract_text(html) ==
    IF html = PageA THEN Str(<<"a", " ", "B", " ", "b", " ">>)
    ELSE IF html = PageB THEN Str(<<"b", " ", "_", " ">>)
    ELSE <<>>

\* \w of std::regex (ECMAScript): [A-Za-z0-9_]
IsWordChar(b) == IsDigit(b) \/ (b >= 65 /\ b <= 90) \/ (b >= 97 /\ b <= 122) \/ b = 95

\* std::isalnum and ::tolower in the C locale
IsAlnum(b) == IsDigit(b) \/ (b >= 65 /\ b <= 90) \/ (b >= 97 /\ b <= 122)

ToLower(b) == IF b >= 65 /\ b <= 90 THEN b + 32 ELSE b

\* the matches of \b\w+\b from position i on: the maximal runs of word characters
RECURSIVE tokenizeFrom(_, _, _, _)
tokenizeFrom(text, i, cur, tokens) ==
    IF i > Len(text)
    THEN IF cur = <<>> THEN tokens ELSE Append(tokens, cur)
    ELSE IF IsWordChar(text[i])
    THEN tokenizeFrom(text, i + 1, Append(cur, text[i]), tokens)
    ELSE tokenizeFrom(text, i + 1, <<>>, IF cur = <<>> THEN tokens ELSE Append(tokens, cur))

tokenize(text) == tokenizeFrom(text, 1, <<>>, <<>>)

normalize_token(token) ==
    LET lower == [i \in 1..Len(token) |-> ToLower(token[i])]
    IN  SelectSeq(lower, IsAlnum)

\* a loop that gives each term the positions 0, 1, 2, ... of its own
RECURSIVE TermPositionsFrom_counts_per_term(_, _, _)
TermPositionsFrom_counts_per_term(tokens, i, term_positions) ==
    IF i > Len(tokens) THEN term_positions
    ELSE LET normalized == SelectSeq([j \in 1..Len(tokens[i]) |-> ToLower(tokens[i][j])], IsAlnum)
         IN  IF normalized = <<>>
             THEN TermPositionsFrom_counts_per_term(tokens, i + 1, term_positions)
             ELSE TermPositionsFrom_counts_per_term(tokens, i + 1,
                      [t \in (DOMAIN term_positions) \cup {normalized} |->
                          IF t = normalized
                          THEN (IF t \in DOMAIN term_positions
                                THEN Append(term_positions[t], Len(term_positions[t]))
                                ELSE <<0>>)
                          ELSE term_positions[t]])

\* the loop of parse over the tokens: term_positions[normalized].push_back(i),
\* i counting from 0
RECURSIVE TermPositionsFrom(_, _, _)
TermPositionsFrom(tokens, i, term_positions) ==
    IF i > Len(tokens) THEN term_positions
    ELSE LET normalized == normalize_token(tokens[i])
         IN  IF normalized = <<>>
             THEN TermPositionsFrom(tokens, i + 1, term_positions)
             ELSE TermPositionsFrom(tokens, i + 1,
                      [t \in (DOMAIN term_positions) \cup {normalized} |->
                          IF t = normalized
                          THEN (IF t \in DOMAIN term_positions
                                THEN Append(term_positions[t], i - 1) ELSE <<i - 1>>)
                          ELSE term_positions[t]])

ParsedDocument == [url |-> <<>>, text_content |-> <<>>, links |-> <<>>, tokens |-> <<>>,
                   term_positions |-> <<>>]

\* Parser::parse
parse(url, html_content) ==
    LET hrefs == Hrefs(html_content)
        text_content == extract_text(html_content)
        tokens == tokenize(text_content)
    IN  [url |-> url,
         text_content |-> text_content,
         links |-> [i \in 1..Len(hrefs) |-> resolve(url, hrefs[i])],
         tokens |-> tokens,
         term_positions |-> TermPositionsFrom(tokens, 1, <<>>)]

max_docs_per_segment_ == 100000

\* A double that is not negative is held exactly, in binary fixed point: int is
\* its integer part and frac the digits after the point in base LimbBase
\* (2^16), frac[i] of weight LimbBase^-i, without trailing zeros.  Every
\* operation computes the exact result and rounds it to the 53 significant
\* bits of the format, to nearest, ties to even (the rounding of the
\* arithmetic of double).
SignificandBits == 53
LimbBits == 16

\* the digits after the point that a quotient is computed to before it is
\* rounded; what is beyond them is summed up in the sticky flag
QuotientLimbs == 5

RECURSIVE BitLen(_)
BitLen(n) == IF n = 0 THEN 0 ELSE 1 + BitLen(n \div 2)

StripZeros(limbs) ==
    LET nonzero == {i \in 1..Len(limbs) : limbs[i] # 0}
    IN  IF nonzero = {} THEN <<>>
        ELSE SubSeq(limbs, 1, CHOOSE i \in nonzero : \A j \in nonzero : j <= i)

\* bit i after the point, of weight 2^-i
Bit(limbs, i) ==
    LET l == (i - 1) \div LimbBits + 1
    IN  IF i < 1 \/ l > Len(limbs) THEN 0
        ELSE (limbs[l] \div 2^(LimbBits - 1 - ((i - 1) % LimbBits))) % 2

\* static_cast<double> of an unsigned integer below 2^53
F64FromInt(n) == [int |-> n, frac |-> <<>>]

\* x * k, exact: the digits are multiplied from the last one up, carry into int
RECURSIVE MulLimbs(_, _, _, _, _)
MulLimbs(x, k, i, carry, acc) ==
    IF i = 0 THEN [int |-> x.int * k + carry, frac |-> acc]
    ELSE LET t == x.frac[i] * k + carry
         IN  MulLimbs(x, k, i - 1, t \div LimbBase, <<t % LimbBase>> \o acc)

MulExact(x, k) ==
    LET r == MulLimbs(x, k, Len(x.frac), 0, <<>>)
    IN  [int |-> r.int, frac |-> StripZeros(r.frac)]

\* x / n by long division, to QuotientLimbs digits after the point; sticky
\* tells whether the remainder is not zero
RECURSIVE DivLimbs(_, _, _, _, _)
DivLimbs(x, n, i, r, acc) ==
    IF i > QuotientLimbs THEN [int |-> x.int \div n, frac |-> acc, sticky |-> r # 0]
    ELSE LET r2 == r * LimbBase + (IF i <= Len(x.frac) THEN x.frac[i] ELSE 0)
         IN  DivLimbs(x, n, i + 1, r2 % n, Append(acc, r2 \div n))

\* the fixed-point number plus amount units of its digit i (of int, when i = 0)
RECURSIVE AddAt(_, _, _, _)
AddAt(int, limbs, i, amount) ==
    IF amount = 0 THEN [int |-> int, frac |-> limbs]
    ELSE IF i = 0 THEN [int |-> int + amount, frac |-> limbs]
    ELSE LET t == limbs[i] + amount
         IN  AddAt(int, [j \in 1..Len(limbs) |-> IF j = i THEN t % LimbBase ELSE limbs[j]],
                   i - 1, t \div LimbBase)

\* round to nearest, ties to even, at SignificandBits significant bits
RoundToDouble(int, frac, sticky) ==
    LET ones == {i \in 1..(LimbBits * Len(frac)) : Bit(frac, i) = 1}
        z == IF ones = {} THEN 0 ELSE CHOOSE i \in ones : \A j \in ones : i <= j
        keep == IF int > 0 THEN SignificandBits - BitLen(int) ELSE z + SignificandBits - 1
        guard == Bit(frac, keep + 1)
        rest == sticky \/ \E j \in ones : j >= keep + 2
        lsb == IF keep = 0 THEN int % 2 ELSE Bit(frac, keep)
        nl == (keep + LimbBits - 1) \div LimbBits
        unit == 2^(LimbBits * nl - keep)
        limb(j) == IF j <= Len(frac) THEN frac[j] ELSE 0
        kept == [j \in 1..nl |-> IF j < nl THEN limb(j) ELSE limb(j) - (limb(j) % unit)]
        up == AddAt(int, kept, nl, IF nl = 0 THEN 1 ELSE unit)
    IN  IF int = 0 /\ z = 0 THEN [int |-> 0, frac |-> <<>>]
        ELSE IF guard = 1 /\ (rest \/ lsb = 1)
        THEN [int |-> up.int, frac |-> StripZeros(up.frac)]
        ELSE [int |-> int, frac |-> StripZeros(kept)]

\* double * size_t, double + size_t, double / size_t
F64Mul(x, k) == LET p == MulExact(x, k) IN RoundToDouble(p.int, p.frac, FALSE)
F64Add(x, n) == RoundToDouble(x.int + n, x.frac, FALSE)
F64Div(x, n) == LET q == DivLimbs(x, n, 1, x.int % n, <<>>) IN RoundToDouble(q.int, q.frac, q.sticky)

\* The operations on two doubles: the exact result on fixed-point numbers,
\* then the rounding.  x and y are not negative.
PadFrac(x, n) == [i \in 1..n |-> IF i <= Len(x.frac) THEN x.frac[i] ELSE 0]

MaxOf(a, b) == IF a >= b THEN a ELSE b

\* e, with the value of first computed before it
After(first, e) == IF first = first THEN e ELSE e

\* -1, 0 or 1 as x < y, x = y or x > y
CmpExact(x, y) ==
    LET n == MaxOf(Len(x.frac), Len(y.frac))
        a == PadFrac(x, n)
        b == PadFrac(y, n)
        differ == {i \in 1..n : a[i] # b[i]}
        first == CHOOSE i \in differ : \A j \in differ : i <= j
    IN  IF x.int # y.int THEN (IF x.int < y.int THEN -1 ELSE 1)
        ELSE IF differ = {} THEN 0
        ELSE IF a[first] < b[first] THEN -1 ELSE 1

\* x + y, exact
RECURSIVE AddLimbs(_, _, _, _, _)
AddLimbs(a, b, i, carry, acc) ==
    IF i = 0 THEN [carry |-> carry, frac |-> acc]
    ELSE LET t == a[i] + b[i] + carry
         IN  AddLimbs(a, b, i - 1, t \div LimbBase, <<t % LimbBase>> \o acc)

AddExact(x, y) ==
    LET n == MaxOf(Len(x.frac), Len(y.frac))
        r == AddLimbs(PadFrac(x, n), PadFrac(y, n), n, 0, <<>>)
    IN  [int |-> x.int + y.int + r.carry, frac |-> StripZeros(r.frac)]

\* x - y, exact, for x >= y
RECURSIVE SubLimbs(_, _, _, _, _)
SubLimbs(a, b, i, borrow, acc) ==
    IF i = 0 THEN [borrow |-> borrow, frac |-> acc]
    ELSE LET t == a[i] - b[i] - borrow
         IN  SubLimbs(a, b, i - 1, IF t < 0 THEN 1 ELSE 0,
                      <<IF t < 0 THEN t + LimbBase ELSE t>> \o acc)

SubExact(x, y) ==
    LET n == MaxOf(Len(x.frac), Len(y.frac))
        r == SubLimbs(PadFrac(x, n), PadFrac(y, n), n, 0, <<>>)
    IN  [int |-> x.int - y.int - r.borrow, frac |-> StripZeros(r.frac)]

\* x * LimbBase^-j, exact, for j >= 1
ShiftRightLimbs(x, j) ==
    LET hi == x.int \div LimbBase
        lo == x.int % LimbBase
    IN  IF j = 1 THEN [int |-> hi, frac |-> StripZeros(<<lo>> \o x.frac)]
        ELSE [int |-> 0, frac |-> StripZeros([i \in 1..(j - 2) |-> 0] \o <<hi, lo>> \o x.frac)]

\* x * y, exact: x times the integer part of y and times each digit of y, a
\* digit taken as two bytes to keep the products small
RECURSIVE MulSum(_, _, _)
MulSum(x, y, j) ==
    IF j = 0 THEN MulExact(x, y.int)
    ELSE LET hi == y.frac[j] \div 256
             lo == y.frac[j] % 256
             byDigit == AddExact(MulExact(MulExact(x, hi), 256), MulExact(x, lo))
         IN  AddExact(MulSum(x, y, j - 1), ShiftRightLimbs(byDigit, j))

MulGen(x, y) == MulSum(x, y, Len(y.frac))

\* x / y for y > 0 and x < LimbBase * y, by long division: one digit before
\* the point and QuotientLimbs digits after it, each digit found as four
\* digits of base 16; r is the remainder, scaled

\* the largest digit d + k * step ... of base 16 with y * digit <= r16, found
\* by halving step
RECURSIVE DivDigit16(_, _, _, _)
DivDigit16(r16, y, d, step) ==
    IF step = 0 THEN d
    ELSE LET next == IF CmpExact(MulExact(y, d + step), r16) <= 0 THEN d + step ELSE d
         IN  After(next, DivDigit16(r16, y, next, step \div 2))

DivRemainder(r16, y, d) == [d |-> d, r |-> SubExact(r16, MulExact(y, d))]

DivStepOf(r16, y) == DivRemainder(r16, y, DivDigit16(r16, y, 0, 8))

DivStep(r, y) == DivStepOf(MulExact(r, 16), y)

\* k more digits of base 16 after the digits d
RECURSIVE DivLimb(_, _, _, _)
DivLimb(r, y, k, d) ==
    IF k = 0 THEN [d |-> d, r |-> r]
    ELSE LET s == DivStep(r, y)
         IN  After(s, DivLimb(s.r, y, k - 1, d * 16 + s.d))

RECURSIVE DivDigits(_, _, _, _)
DivDigits(r, y, i, acc) ==
    IF i > 1 + QuotientLimbs
    THEN [int |-> acc[1], frac |-> SubSeq(acc, 2, 1 + QuotientLimbs),
          sticky |-> r # F64FromInt(0)]
    ELSE LET s == DivLimb(r, y, 4, 0)
         IN  After(s, DivDigits(s.r, y, i + 1, Append(acc, s.d)))

DivGen(x, y) == DivDigits(ShiftRightLimbs(x, 1), y, 1, <<>>)

\* the rounding of an exact result q
Rounded(q, sticky) == RoundToDouble(q.int, q.frac, sticky)

\* double * double, double + double, double / double
F64MulF(x, y) == Rounded(MulGen(x, y), FALSE)
F64AddF(x, y) == Rounded(AddExact(x, y), FALSE)
RoundedQuotient(q) == Rounded(q, q.sticky)
F64DivF(x, y) == RoundedQuotient(DivGen(x, y))

\* an update that weighs the old average by the new number of documents
update_avg_doc_length_weighs_by_new_count(avg_doc_length, total_documents, doc_length) ==
    F64Div(F64Add(F64Mul(avg_doc_length, total_documents), doc_length), total_documents)

\* avg_doc_length_ = (avg_doc_length_ * (total_documents_ - 1) + doc_length) / total_documents_
update_avg_doc_length(avg_doc_length, total_documents, doc_length) ==
    F64Div(F64Add(F64Mul(avg_doc_length, total_documents - 1), doc_length), total_documents)

\* an Indexer whose doc ids start at 0
IndexerInit_ids_from_zero ==
    [inverted_index_ |-> <<>>, forward_index_ |-> <<>>, doc_lengths_ |-> <<>>,
     next_doc_id_ |-> 0, current_segment_size_ |-> 0, segment_count_ |-> 0,
     total_documents_ |-> 0, avg_doc_length_ |-> [int |-> 0, frac |-> <<>>]]

IndexerInit ==
    [inverted_index_ |-> <<>>, forward_index_ |-> <<>>, doc_lengths_ |-> <<>>,
     next_doc_id_ |-> 1, current_segment_size_ |-> 0, segment_count_ |-> 0,
     total_documents_ |-> 0, avg_doc_length_ |-> F64FromInt(0)]

\* the sum of f over the set S
RECURSIVE SumOver(_, _)
SumOver(f, S) ==
    IF S = {} THEN 0
    ELSE LET x == CHOOSE y \in S : TRUE
         IN  f[x] + SumOver(f, S \ {x})

\* a flush that evicts the flushed documents from the in-memory index
flush_segment_evicts(ix) ==
    IF ix.current_segment_size_ = 0 THEN ix
    ELSE [ix EXCEPT !.segment_count_ = @ + 1, !.current_segment_size_ = 0,
                    !.inverted_index_ = <<>>, !.forward_index_ = <<>>, !.doc_lengths_ = <<>>]

\* Indexer::flush_segment
flush_segment(ix) ==
    IF ix.current_segment_size_ = 0 THEN ix
    ELSE [ix EXCEPT !.segment_count_ = @ + 1, !.current_segment_size_ = 0]

\* a push at the front of the posting list
push_front(postings, posting) == <<posting>> \o postings

\* inverted_index_[term].push_back(posting)
push_back(postings, posting) == Append(postings, posting)

\* a document length that counts the indexed terms
doc_length_counts_terms(term_positions, terms) == Cardinality(terms)

\* doc_length += positions.size(), over the terms that are indexed
doc_length_of(term_positions, terms) ==
    SumOver([t \in terms |-> Len(term_positions[t])], terms)

\* Indexer::index_document from "doc.url = parsed_doc.url" on, doc_id being
\* the value that "doc.doc_id = next_doc_id_++" gave to doc.doc_id
index_document_body(ix, doc_id, parsed_doc) ==
    LET tp == parsed_doc.term_positions
        terms == {t \in DOMAIN tp : t # <<>>}
        posting(t) == [doc_id |-> doc_id, positions |-> tp[t], tf |-> Len(tp[t])]
        inverted == [t \in (DOMAIN ix.inverted_index_) \cup terms |->
                        IF t \in terms
                        THEN (IF t \in DOMAIN ix.inverted_index_
                              THEN push_back(ix.inverted_index_[t], posting(t))
                              ELSE push_back(<<>>, posting(t)))
                        ELSE ix.inverted_index_[t]]
        doc_length == doc_length_of(tp, terms)
        document == [doc_id |-> doc_id, url |-> parsed_doc.url,
                     text_content |-> parsed_doc.text_content, term_positions |-> tp]
        n == ix.total_documents_ + 1
        ix1 == [ix EXCEPT !.inverted_index_ = inverted,
                          !.doc_lengths_ = [i \in (DOMAIN @) \cup {doc_id} |->
                                               IF i = doc_id THEN doc_length ELSE @[i]],
                          !.forward_index_ = [i \in (DOMAIN @) \cup {doc_id} |->
                                                 IF i = doc_id THEN document ELSE @[i]],
                          !.total_documents_ = n,
                          !.current_segment_size_ = @ + 1,
                          !.avg_doc_length_ = update_avg_doc_length(@, n, doc_length)]
    IN  IF ix1.current_segment_size_ >= max_docs_per_segment_ THEN flush_segment(ix1) ELSE ix1

\* Indexer::index_document, run from its first statement to its return
index_document(ix, parsed_doc) ==
    index_document_body([ix EXCEPT !.next_doc_id_ = @ + 1], ix.next_doc_id_, parsed_doc)

total_documents(ix) == ix.total_documents_

\* Indexer's BM25 parameters: k1_ = 1.5, b_ = 0.75
k1_ == [int |-> 1, frac |-> <<32768>>]

b_ == [int |-> 0, frac |-> <<49152>>]

\* std::log, on the quotients of two counts of at most six documents: the
\* argument and the double the C library returns for it
LogTable ==
    <<
      <<[int |-> 1, frac |-> <<>>],
        [int |-> 0, frac |-> <<>>]>>,
      <<[int |-> 1, frac |-> <<13107, 13107, 13107, 12288>>],
        [int |-> 0, frac |-> <<11948, 40995, 51500, 59904>>]>>,
      <<[int |-> 1, frac |-> <<16384>>],
        [int |-> 0, frac |-> <<14623, 61327, 13620, 17408>>]>>,
      <<[int |-> 1, frac |-> <<21845, 21845, 21845, 20480>>],
        [int |-> 0, frac |-> <<18853, 34884, 54126, 17408>>]>>,
      <<[int |-> 1, frac |-> <<32768>>],
        [int |-> 0, frac |-> <<26572, 36786, 65121, 12288>>]>>,
      <<[int |-> 1, frac |-> <<43690, 43690, 43690, 45056>>],
        [int |-> 0, frac |-> <<33477, 30676, 2210, 36864>>]>>,
      <<[int |-> 2, frac |-> <<>>],
        [int |-> 0, frac |-> <<45426, 6135, 53711, 30720>>]>>,
      <<[int |-> 2, frac |-> <<32768>>],
        [int |-> 0, frac |-> <<60050, 1927, 1795, 49152>>]>>,
      <<[int |-> 3, frac |-> <<>>],
        [int |-> 1, frac |-> <<6462, 42922, 53296, 45056>>]>>,
      <<[int |-> 4, frac |-> <<>>],
        [int |-> 1, frac |-> <<25316, 12271, 41886, 61440>>]>>,
      <<[int |-> 5, frac |-> <<>>],
        [int |-> 1, frac |-> <<39940, 8062, 55507, 12288>>]>>,
      <<[int |-> 6, frac |-> <<>>],
        [int |-> 1, frac |-> <<51888, 49058, 41472, 8192>>]>>
    >>

std_log(x) == LET e == CHOOSE i \in 1..Len(LogTable) : LogTable[i][1] = x IN LogTable[e][2]

F64SubF(x, y) == Rounded(SubExact(x, y), FALSE)

\* a score that is the term frequency alone
calculate_bm25_term_frequency(ix, doc_id, positions) == F64FromInt(Len(positions))

\* Indexer::calculate_bm25
calculate_bm25(ix, doc_id, positions) ==
    LET tf == F64FromInt(Len(positions))
        doc_length == F64FromInt(ix.doc_lengths_[doc_id])
        normalized_length == F64DivF(doc_length, ix.avg_doc_length_)
        numerator == F64MulF(tf, F64AddF(k1_, F64FromInt(1)))
        denominator == F64AddF(tf, F64MulF(k1_, F64AddF(F64SubF(F64FromInt(1), b_),
                                                         F64MulF(b_, normalized_length))))
    IN  IF doc_id \notin DOMAIN ix.doc_lengths_ THEN F64FromInt(0)
        ELSE F64DivF(numerator, denominator)

\* "while (iss >> term)": the maximal runs of characters that are not white
\* space, each in lower case
RECURSIVE query_terms_from(_, _, _, _)
query_terms_from(query, i, term, acc) ==
    LET pushed == IF term = <<>> THEN acc ELSE Append(acc, term)
    IN  IF i > Len(query) THEN pushed
        ELSE IF IsSpace(query[i]) THEN query_terms_from(query, i + 1, <<>>, pushed)
        ELSE query_terms_from(query, i + 1, Append(term, ToLower(query[i])), acc)

query_terms(query) == query_terms_from(query, 1, <<>>, <<>>)

\* a scoring that stops after the first term of the query
score_documents_first_term_only(ix, terms, i, doc_scores) ==
    IF terms = <<>> \/ terms[1] \notin DOMAIN ix.inverted_index_ THEN <<>>
    ELSE LET postings == ix.inverted_index_[terms[1]]
         IN  [d \in {postings[j].doc_id : j \in 1..Len(postings)} |-> F64FromInt(0)]

\* a scoring in which a query without terms matches every document
score_documents_matches_all_without_terms(ix, terms, i, doc_scores) ==
    IF terms = <<>> THEN [d \in DOMAIN ix.doc_lengths_ |-> F64FromInt(0)]
    ELSE score_documents_first_term_only(ix, terms, i, doc_scores)

\* the "Score documents" loop from query term i on: doc_scores after it
RECURSIVE score_documents(_, _, _, _)
score_documents(ix, terms, i, doc_scores) ==
    IF i > Len(terms) THEN doc_scores
    ELSE IF terms[i] \notin DOMAIN ix.inverted_index_
    THEN score_documents(ix, terms, i + 1, doc_scores)
    ELSE LET postings == ix.inverted_index_[terms[i]]
             idf == std_log(F64Div(F64FromInt(ix.total_documents_), Len(postings)))
             scored == {postings[j].doc_id : j \in 1..Len(postings)}
             posting(d) == postings[CHOOSE j \in 1..Len(postings) : postings[j].doc_id = d]
             before(d) == IF d \in DOMAIN doc_scores THEN doc_scores[d] ELSE F64FromInt(0)
             bm25(d) == calculate_bm25(ix, d, posting(d).positions)
             added == [d \in (DOMAIN doc_scores) \cup scored |->
                          IF d \in scored THEN F64AddF(before(d), F64MulF(bm25(d), idf))
                          ELSE doc_scores[d]]
         IN  After(added, score_documents(ix, terms, i + 1, added))

\* scored_docs after std::sort with the comparator a.second > b.second: the
\* entries of doc_scores, which an unordered_map hands over in no specified
\* order, in any order that has no score below a later one
scored_docs_sorted(doc_scores) ==
    LET ids == DOMAIN doc_scores
        n == Cardinality(ids)
    IN  {s \in [1..n -> ids] :
            /\ \A i, j \in 1..n : i # j => s[i] # s[j]
            /\ \A i, j \in 1..n : i < j => CmpExact(doc_scores[s[i]], doc_scores[s[j]]) >= 0}

\* static_cast<size_t>(topk) for an int topk, as four 16-bit digits
size_t_of_int(topk) ==
    IF topk >= 0 THEN <<0, 0, topk \div LimbBase, topk % LimbBase>>
    ELSE LET m == -(topk + 1)
         IN  <<LimbBase - 1, LimbBase - 1,
               LimbBase - 1 - (m \div LimbBase), LimbBase - 1 - (m % LimbBase)>>

\* a < b on size_t values
size_t_less(a, b) ==
    \E i \in 1..4 : a[i] < b[i] /\ \A j \in 1..(i - 1) : a[j] = b[j]

\* std::min(static_cast<size_t>(topk), scored_docs.size())
result_count(topk, size) ==
    IF size_t_less(size_t_of_int(topk), size_t_of_int(size)) THEN topk ELSE size

\* the snippet of a result: the first 200 characters, "..." after them
\* when there are more
snippet_of(text_content) ==
    IF Len(text_content) > 200
    THEN SubSeq(text_content, 1, 200) \o <<46, 46, 46>>
    ELSE text_content

\* the "Build results" loop over the sorted scored_docs
build_results(ix, doc_scores, sorted, topk) ==
    LET count == result_count(topk, Len(sorted))
        found == SelectSeq(SubSeq(sorted, 1, count), LAMBDA d : d \in DOMAIN ix.forward_index_)
    IN  [i \in 1..Len(found) |->
            [doc_id |-> found[i], url |-> ix.forward_index_[found[i]].url,
             score |-> doc_scores[found[i]],
             snippet |-> snippet_of(ix.forward_index_[found[i]].text_content)]]

\* Indexer::search: the lists it can return
search(ix, query, topk) ==
    LET doc_scores == score_documents(ix, query_terms(query), 1, <<>>)
    IN  {build_results(ix, doc_scores, sorted, topk) : sorted \in scored_docs_sorted(doc_scores)}

\* Storage::save_document: the set of (doc id, url) files written
save_document(st, doc_id, url) == st \cup {<<doc_id, url>>}

\* ------------------------------------------------------------------------
\* State
\* ------------------------------------------------------------------------
VARIABLES
    now,            \* steady_clock, in milliseconds
    pc,             \* the statement of main() that runs next
    task,           \* main's CrawlTask task
    fetch_result,   \* main's FetchResult
    doc,            \* main's ParsedDocument
    sched,          \* the Scheduler
    dedup,          \* the Deduplicator
    redis_kv,       \* the keys held by the remote key-value store
    fetcher,        \* the Fetcher's counters
    indexer,        \* the Indexer
    storage,        \* the documents written by Storage
    last_op,        \* history: the last Deduplicator call and its outcome
    degraded,       \* history: a remote command has failed since init_redis
    marked_urls,    \* history: the urls passed to mark_url_seen
    indexed,        \* history: the (url, content hash, body, doc id) of the
                    \*          index_document calls
    fetch_log,      \* history: the (url, status, body) of the fetches, in order
    retry_log,      \* history: url -> its mark_failed calls: k with will_retry, the
                    \*          time at of the last of them, drops without will_retry
    fetched_at,     \* history: host -> time of its last successful fetch
    dequeued_at,    \* history: time at which get_next_task returned task
    max_retry_count,\* history: the largest retry_count of a task get_next_task returned
    allocated,      \* history: the doc ids index_document has allocated, in the order of the calls
    queue_mutex_,   \* the thread that holds the Scheduler's queue mutex, or "free"
    ctl,            \* the call in progress in the thread that feeds and stops the frontier
    workers,        \* the number of worker threads that have not returned yet
    admitted,       \* history: the urls pushed by add_url and mark_failed, in order
    got,            \* history: the outcome of the last get_next_task call
    searched,       \* history: the last Indexer::search call and the list it returned
    canon,          \* a url, a second spelling of it, and what canonicalize made of them
    hops,           \* max_redirects_, and the last Fetcher::fetch made under it: the
                    \* answers of the servers of its redirect chain and its result
    backoff_mutex_, \* the thread that holds the Scheduler's backoff mutex, or "free"
    callers         \* the Scheduler call each of the concurrent caller threads is in

\* the variables of the calls made on one component alone
callVars == <<searched, canon, hops, backoff_mutex_, callers>>

NoSearch == [query |-> <<>>, topk |-> 0, results |-> <<>>, called |-> FALSE]

NoCanon == [url |-> <<>>, other |-> <<>>, out |-> <<>>, other_out |-> <<>>, again |-> <<>>,
            seen |-> FALSE, phase |-> 0]

\* no fetch made yet; max_redirects_ as the Fetcher's constructor leaves it
NoHops == [max_redirects_ |-> max_redirects_default, responses |-> <<>>, called |-> FALSE,
           result |-> <<>>]

\* the concurrent callers of the Scheduler
LockThreads == {"t1", "t2"}

\* a caller: the call it is in, the statement of the call's body it is at,
\* the call's url and its local task and can_fetch_domain result, and the
\* number of add_url and mark_failed calls it has made
NoCallers ==
    [t \in LockThreads |->
        [op |-> "idle", step |-> 0, url |-> <<>>, task |-> CrawlTask, can |-> FALSE, calls |-> 0]]

CallInit ==
    /\ searched = NoSearch
    /\ canon = NoCanon
    /\ hops = NoHops
    /\ backoff_mutex_ = "free"
    /\ callers = NoCallers

vars == <<now, pc, task, fetch_result, doc, sched, dedup, redis_kv, fetcher, indexer,
          storage, last_op, degraded, marked_urls, indexed, fetch_log,
          retry_log, fetched_at, dequeued_at, max_retry_count, allocated,
          queue_mutex_, ctl, workers, admitted, got, callVars>>

frontierVars == <<queue_mutex_, ctl, workers, admitted, got, callVars>>

histVars == <<indexed, fetch_log, retry_log, fetched_at, dequeued_at, max_retry_count,
              allocated>>

\* main's seed urls, with shorter host names
UrlA == Str(<<"h", "t", "t", "p", "s", ":", "/", "/", "a", ".", "c", "o", "m">>)
UrlB == Str(<<"h", "t", "t", "p", "s", ":", "/", "/", "b", ".", "c", "o", "m">>)
seed_urls == <<UrlA, UrlB>>

\* the statuses the transport answers with
FetchStatuses == {200, 404, 503}

\* the modelled web: the servers of the seed urls answer or are temporarily
\* unavailable, a linked page is there or missing; the page at the first seed
\* is PageA, the one behind a link is PageB, the second seed serves any page
ServerStatuses(url) ==
    IF url \in {UrlA, UrlB} THEN FetchStatuses \ {404} ELSE FetchStatuses \ {503}

ServerBodies(url) ==
    IF url = UrlA THEN {PageA} ELSE IF url = UrlB THEN Pages ELSE {PageB}

\* the durations of a transport call, in milliseconds
FetchDurations == {0, 1000}

NoOp == [op |-> "none", arg |-> <<>>, ret |-> FALSE, cmds |-> 0, degraded |-> FALSE]

\* f with key k set to v
Upd(f, k, v) == [x \in (DOMAIN f) \cup {k} |-> IF x = k THEN v ELSE f[x]]

Init ==
    /\ now = 0
    /\ pc = "init_redis"
    /\ task = CrawlTask
    /\ fetch_result = FetchResult
    /\ doc = ParsedDocument
    /\ sched = SchedulerInit
    /\ dedup = DedupInit
    /\ redis_kv = {}
    /\ fetcher = FetcherInit
    /\ indexer = IndexerInit
    /\ storage = {}
    /\ last_op = NoOp
    /\ degraded = FALSE
    /\ marked_urls = {}
    /\ indexed = {}
    /\ fetch_log = <<>>
    /\ retry_log = <<>>
    /\ fetched_at = <<>>
    /\ dequeued_at = 0
    /\ max_retry_count = 0
    /\ allocated = <<>>
    /\ queue_mutex_ = "free"
    /\ ctl = <<"idle">>
    /\ workers = 0
    /\ admitted = <<>>
    /\ got = [ret |-> FALSE, calls |-> 0]
    /\ CallInit

\* a Deduplicator call with outcome r: the object, the remote store and the history
DedupCall(op, arg, r, fail) ==
    /\ dedup' = r.d
    /\ redis_kv' = r.kv
    /\ last_op' = [op |-> op, arg |-> arg, ret |-> r.ret, cmds |-> r.cmds,
                   degraded |-> degraded]
    /\ degraded' = IF op = "init_redis" THEN FALSE
                   ELSE degraded \/ (r.cmds > 0 /\ fail)
    /\ marked_urls' = IF op = "mark_url_seen" THEN marked_urls \cup {arg} ELSE marked_urls

\* the outcomes of the remote command a call may issue: a call made while
\* redis_available_ is false issues none
ReplyFails(d) == IF d.redis_available_ THEN BOOLEAN ELSE {FALSE}

dedupVars == <<dedup, redis_kv, last_op, degraded, marked_urls>>

NoRetries == [k |-> 0, at |-> 0, drops |-> 0]

RetryLogOf(url) == IF url \in DOMAIN retry_log THEN retry_log[url] ELSE NoRetries

\* the statuses of the fetches of url, in order
RECURSIVE StatusesOf(_, _)
StatusesOf(log, url) ==
    IF log = <<>> THEN <<>>
    ELSE IF Head(log)[1] = url THEN <<Head(log)[2]>> \o StatusesOf(Tail(log), url)
    ELSE StatusesOf(Tail(log), url)

\* ------------------------------------------------------------------------
\* main(): one action per statement of the orchestrator
\* ------------------------------------------------------------------------
\* if (!dedup.init_redis(host, port))
MainInitRedis ==
    /\ pc = "init_redis"
    /\ \E connected \in BOOLEAN :
        LET r == init_redis(dedup, redis_kv, connected)
        IN  /\ DedupCall("init_redis", <<>>, r, FALSE)
            /\ pc' = IF r.ret THEN "start" ELSE "enable_local_fallback"
    /\ UNCHANGED <<now, task, fetch_result, doc, sched, fetcher, indexer, storage>>
    /\ UNCHANGED histVars
    /\ UNCHANGED frontierVars

\* dedup.enable_local_fallback(true)
MainEnableLocalFallback ==
    /\ pc = "enable_local_fallback"
    /\ DedupCall("enable_local_fallback", <<>>, enable_local_fallback(dedup, redis_kv, TRUE), FALSE)
    /\ pc' = "start"
    /\ UNCHANGED <<now, task, fetch_result, doc, sched, fetcher, indexer, storage>>
    /\ UNCHANGED histVars
    /\ UNCHANGED frontierVars

\* scheduler.start()
MainStart ==
    /\ pc = "start"
    /\ sched' = start(sched)
    /\ pc' = "add_seed_urls"
    /\ UNCHANGED <<now, task, fetch_result, doc, fetcher, indexer, storage>>
    /\ UNCHANGED dedupVars
    /\ UNCHANGED histVars
    /\ UNCHANGED frontierVars

\* scheduler.add_seed_urls(seed_urls)
MainAddSeedUrls ==
    /\ pc = "add_seed_urls"
    /\ sched' = add_seed_urls(sched, seed_urls, now).s
    /\ pc' = "get_next_task"
    /\ UNCHANGED <<now, task, fetch_result, doc, fetcher, indexer, storage>>
    /\ UNCHANGED dedupVars
    /\ UNCHANGED histVars
    /\ UNCHANGED frontierVars

\* get_next_task: one round of the wait loop on an empty queue
GetNextTaskWait ==
    /\ pc = "get_next_task"
    /\ sched.task_queue_ = <<>> /\ sched.running_
    /\ now + wait_sleep_ms <= MaxTime
    /\ now' = now + wait_sleep_ms
    /\ UNCHANGED <<pc, task, fetch_result, doc, sched, fetcher, indexer, storage>>
    /\ UNCHANGED dedupVars
    /\ UNCHANGED histVars
    /\ UNCHANGED frontierVars

\* while (scheduler.get_next_task(task))
MainGetNextTask ==
    /\ pc = "get_next_task"
    /\ ~(sched.task_queue_ = <<>> /\ sched.running_)
    /\ LET r == get_next_task(sched, task, now)
       IN  /\ sched' = r.s
           /\ task' = r.task
           /\ pc' = IF r.ret THEN "is_url_seen" ELSE "cleanup"
           /\ dequeued_at' = IF r.ret THEN now ELSE dequeued_at
           /\ max_retry_count' = IF r.ret /\ r.task.retry_count > max_retry_count
                                 THEN r.task.retry_count ELSE max_retry_count
    /\ UNCHANGED <<now, fetch_result, doc, fetcher, indexer, storage>>
    /\ UNCHANGED dedupVars
    /\ UNCHANGED <<indexed, fetch_log, retry_log, fetched_at, allocated>>
    /\ UNCHANGED frontierVars

\* the url check with its result ignored: the task is fetched in either case
MainIsUrlSeen_ignored ==
    /\ pc = "is_url_seen"
    /\ \E fail \in ReplyFails(dedup) :
        DedupCall("is_url_seen", task.url, is_url_seen(dedup, redis_kv, task.url, fail), fail)
    /\ pc' = "fetch"
    /\ UNCHANGED <<now, task, fetch_result, doc, sched, fetcher, indexer, storage>>
    /\ UNCHANGED histVars
    /\ UNCHANGED frontierVars

\* if (dedup.is_url_seen(task.url)) { scheduler.mark_completed(task.url); continue; }
MainIsUrlSeen ==
    /\ pc = "is_url_seen"
    /\ \E fail \in ReplyFails(dedup) :
        LET r == is_url_seen(dedup, redis_kv, task.url, fail)
        IN  /\ DedupCall("is_url_seen", task.url, r, fail)
            /\ IF r.ret
               THEN sched' = mark_completed(sched, task.url) /\ pc' = "get_next_task"
               ELSE sched' = sched /\ pc' = "fetch"
    /\ UNCHANGED <<now, task, fetch_result, doc, fetcher, indexer, storage>>
    /\ UNCHANGED histVars
    /\ UNCHANGED frontierVars

\* FetchResult fetch_result = fetcher.fetch(task.url)
MainFetch ==
    /\ pc = "fetch"
    /\ \E status \in ServerStatuses(task.url), body \in ServerBodies(task.url),
          d \in FetchDurations :
        LET r == fetch(fetcher, status, body)
        IN  /\ now + d <= MaxTime
            /\ now' = now + d
            /\ fetcher' = r.f
            /\ fetch_result' = r.result
            /\ fetch_log' = Append(fetch_log, <<task.url, status, r.result.content>>)
            /\ fetched_at' = IF r.result.success
                             THEN Upd(fetched_at, extract_domain(task.url), now + d)
                             ELSE fetched_at
    /\ pc' = "check_fetch"
    /\ UNCHANGED <<task, doc, sched, indexer, storage, indexed, retry_log, dequeued_at,
                   max_retry_count, allocated>>
    /\ UNCHANGED dedupVars
    /\ UNCHANGED frontierVars

\* if (!fetch_result.success) { scheduler.mark_failed(task.url, task.retry_count < max_retries); continue; }
MainCheckFetch ==
    /\ pc = "check_fetch"
    /\ IF ~fetch_result.success
       THEN LET will_retry == task.retry_count < scheduler_max_retries_
                old == RetryLogOf(task.url)
            IN  /\ sched' = mark_failed(sched, task.url, will_retry, now)
                /\ retry_log' = Upd(retry_log, task.url,
                                    IF will_retry
                                    THEN [old EXCEPT !.k = @ + 1, !.at = now]
                                    ELSE [old EXCEPT !.drops = @ + 1])
                /\ pc' = "get_next_task"
       ELSE /\ pc' = "is_content_seen"
            /\ UNCHANGED <<sched, retry_log>>
    /\ UNCHANGED <<now, task, fetch_result, doc, fetcher, indexer, storage>>
    /\ UNCHANGED dedupVars
    /\ UNCHANGED <<indexed, fetch_log, fetched_at, dequeued_at, max_retry_count, allocated>>
    /\ UNCHANGED frontierVars

\* the content check followed by the marking, ahead of parse and index
MainIsContentSeen_marks_first ==
    /\ pc = "is_content_seen"
    /\ \E fail \in ReplyFails(dedup) :
        LET r == is_content_seen(dedup, redis_kv, fetch_result.content_hash, fail)
        IN  /\ DedupCall("is_content_seen", fetch_result.content_hash, r, fail)
            /\ IF r.ret
               THEN sched' = mark_completed(sched, task.url) /\ pc' = "get_next_task"
               ELSE sched' = sched /\ pc' = "mark_url_seen"
    /\ UNCHANGED <<now, task, fetch_result, doc, fetcher, indexer, storage>>
    /\ UNCHANGED histVars
    /\ UNCHANGED frontierVars

\* if (dedup.is_content_seen(fetch_result.content_hash)) { scheduler.mark_completed(task.url); continue; }
MainIsContentSeen ==
    /\ pc = "is_content_seen"
    /\ \E fail \in ReplyFails(dedup) :
        LET r == is_content_seen(dedup, redis_kv, fetch_result.content_hash, fail)
        IN  /\ DedupCall("is_content_seen", fetch_result.content_hash, r, fail)
            /\ IF r.ret
               THEN sched' = mark_completed(sched, task.url) /\ pc' = "get_next_task"
               ELSE sched' = sched /\ pc' = "parse"
    /\ UNCHANGED <<now, task, fetch_result, doc, fetcher, indexer, storage>>
    /\ UNCHANGED histVars
    /\ UNCHANGED frontierVars

\* ParsedDocument doc = parser.parse(task.url, fetch_result.content)
MainParse ==
    /\ pc = "parse"
    /\ doc' = parse(task.url, fetch_result.content)
    /\ pc' = "index_document"
    /\ UNCHANGED <<now, task, fetch_result, sched, fetcher, indexer, storage>>
    /\ UNCHANGED dedupVars
    /\ UNCHANGED histVars
    /\ UNCHANGED frontierVars

\* indexer.index_document(doc, metadata)
MainIndexDocument ==
    /\ pc = "index_document"
    /\ indexer' = index_document(indexer, doc)
    /\ indexed' = indexed \cup {<<doc.url, fetch_result.content_hash, fetch_result.content,
                                 indexer.next_doc_id_>>}
    /\ pc' = "save_document"
    /\ UNCHANGED <<now, task, fetch_result, doc, sched, fetcher, storage>>
    /\ UNCHANGED dedupVars
    /\ allocated' = Append(allocated, indexer.next_doc_id_)
    /\ UNCHANGED <<fetch_log, retry_log, fetched_at, dequeued_at, max_retry_count>>
    /\ UNCHANGED frontierVars

\* storage.save_document(indexer.total_documents(), task.url, ...)
MainSaveDocument ==
    /\ pc = "save_document"
    /\ storage' = save_document(storage, total_documents(indexer), task.url)
    /\ pc' = "mark_url_seen"
    /\ UNCHANGED <<now, task, fetch_result, doc, sched, fetcher, indexer>>
    /\ UNCHANGED dedupVars
    /\ UNCHANGED histVars
    /\ UNCHANGED frontierVars

\* dedup.mark_url_seen(task.url)
MainMarkUrlSeen ==
    /\ pc = "mark_url_seen"
    /\ \E fail \in ReplyFails(dedup) :
        DedupCall("mark_url_seen", task.url, mark_url_seen(dedup, redis_kv, task.url, fail), fail)
    /\ pc' = "mark_content_seen"
    /\ UNCHANGED <<now, task, fetch_result, doc, sched, fetcher, indexer, storage>>
    /\ UNCHANGED histVars
    /\ UNCHANGED frontierVars

\* dedup.mark_content_seen(fetch_result.content_hash, std::to_string(indexer.total_documents()))
MainMarkContentSeen ==
    /\ pc = "mark_content_seen"
    /\ \E fail \in ReplyFails(dedup) :
        DedupCall("mark_content_seen", fetch_result.content_hash,
                  mark_content_seen(dedup, redis_kv, fetch_result.content_hash,
                                    total_documents(indexer), fail), fail)
    /\ pc' = "add_links"
    /\ UNCHANGED <<now, task, fetch_result, doc, sched, fetcher, indexer, storage>>
    /\ UNCHANGED histVars
    /\ UNCHANGED frontierVars

RECURSIVE AddLinksFrom(_, _, _, _)
AddLinksFrom(s, links, i, t) ==
    IF i > Len(links) THEN s
    ELSE AddLinksFrom(add_url(s, links[i], 0, t).s, links, i + 1, t)

\* for (const auto& link : doc.links) scheduler.add_url(link, 0)
MainAddLinks ==
    /\ pc = "add_links"
    /\ sched' = AddLinksFrom(sched, doc.links, 1, now)
    /\ pc' = "mark_completed"
    /\ UNCHANGED <<now, task, fetch_result, doc, fetcher, indexer, storage>>
    /\ UNCHANGED dedupVars
    /\ UNCHANGED histVars
    /\ UNCHANGED frontierVars

\* scheduler.mark_completed(task.url)
MainMarkCompleted ==
    /\ pc = "mark_completed"
    /\ sched' = mark_completed(sched, task.url)
    /\ pc' = "sleep"
    /\ UNCHANGED <<now, task, fetch_result, doc, fetcher, indexer, storage>>
    /\ UNCHANGED dedupVars
    /\ UNCHANGED histVars
    /\ UNCHANGED frontierVars

\* std::this_thread::sleep_for(std::chrono::milliseconds(100))
MainSleep ==
    /\ pc = "sleep"
    /\ now + loop_sleep_ms <= MaxTime
    /\ now' = now + loop_sleep_ms
    /\ pc' = "get_next_task"
    /\ UNCHANGED <<task, fetch_result, doc, sched, fetcher, indexer, storage>>
    /\ UNCHANGED dedupVars
    /\ UNCHANGED histVars
    /\ UNCHANGED frontierVars

\* scheduler.stop() after the loop
MainCleanup ==
    /\ pc = "cleanup"
    /\ sched' = stop(sched)
    /\ pc' = "done"
    /\ UNCHANGED <<now, task, fetch_result, doc, fetcher, indexer, storage>>
    /\ UNCHANGED dedupVars
    /\ UNCHANGED histVars
    /\ UNCHANGED frontierVars

Next ==
    \/ MainInitRedis
    \/ MainEnableLocalFallback
    \/ MainStart
    \/ MainAddSeedUrls
    \/ GetNextTaskWait
    \/ MainGetNextTask
    \/ MainIsUrlSeen
    \/ MainFetch
    \/ MainCheckFetch
    \/ MainIsContentSeen
    \/ MainParse
    \/ MainIndexDocument
    \/ MainSaveDocument
    \/ MainMarkUrlSeen
    \/ MainMarkContentSeen
    \/ MainAddLinks
    \/ MainMarkCompleted
    \/ MainSleep
    \/ MainCleanup

Spec == Init /\ [][Next]_vars

\* ------------------------------------------------------------------------
\* Properties of the orchestrator and the frontier (specification Spec)
\* ------------------------------------------------------------------------
\* get_next_task has just returned task
Dequeued == pc = "is_url_seen"

QueuedUrls == {sched.task_queue_[i].url : i \in 1..Len(sched.task_queue_)}

FetchedUrls == {fetch_log[i][1] : i \in 1..Len(fetch_log)}

AllFailed(statuses) ==
    /\ statuses # <<>>
    /\ \A i \in 1..Len(statuses) : statuses[i] < 200 \/ statuses[i] >= 300

IsPrefix(a, b) == Len(a) <= Len(b) /\ SubSeq(b, 1, Len(a)) = a

\* C1: a task re-queued by the k-th mark_failed(url, will_retry = true) of its
\* url, 1 <= k <= max_retries, is not returned by get_next_task before the time
\* of that call plus retry_backoff * 2^(k-1).
C1_RetryBackoffExponential ==
    LET r == RetryLogOf(task.url)
    IN  (Dequeued /\ task.retry_count >= 1 /\ r.k >= 1 /\ r.k <= scheduler_max_retries_)
            => dequeued_at >= r.at + scheduler_retry_backoff_ms_ * 2^(r.k - 1)

\* C2: after a successful fetch of a url on host h, get_next_task returns no
\* task of host h before the time the fetch completed plus the politeness delay.
C2_PolitenessAfterSuccess ==
    LET h == extract_domain(task.url)
    IN  (Dequeued /\ h \in DOMAIN fetched_at)
            => dequeued_at >= fetched_at[h] + politeness_delay_ms

\* C3: a url whose fetches all fail is fetched at most max_retries + 1 times;
\* once the last of these failures is reported the task is dropped, not
\* re-queued, and total_failed_ counts it exactly once.
C3_RetriesBounded ==
    \A u \in FetchedUrls :
        LET statuses == StatusesOf(fetch_log, u)
            r == RetryLogOf(u)
        IN  AllFailed(statuses) =>
                /\ Len(statuses) <= scheduler_max_retries_ + 1
                /\ r.drops <= 1
                /\ (Len(statuses) = scheduler_max_retries_ + 1 /\ r.k + r.drops = Len(statuses))
                       => (r.drops = 1 /\ u \notin QueuedUrls /\ sched.total_failed_ >= 1)

\* C4: the crawl loop ends only when the running flag is clear and the queue
\* is empty; a task that is not ready does not end it.
C4_TerminalOnlyWhenStopped ==
    pc = "cleanup" => (~sched.running_ /\ sched.task_queue_ = <<>>)

FetchStatusSeq == [i \in 1..Len(fetch_log) |-> fetch_log[i][2]]

Stub503x3Then200 == <<503, 503, 503, 200>>

\* C5: when the transport answers 503 three times and then 200, the run ends
\* with successful_fetches_ = 1, failed_fetches_ = 0, a document indexed and a
\* task retry count that reached 3.
C5_ThreeFailuresThenSuccess ==
    (pc = "done" /\ IsPrefix(FetchStatusSeq, Stub503x3Then200))
        => /\ fetcher.successful_fetches_ = 1
           /\ fetcher.failed_fetches_ = 0
           /\ indexed # {}
           /\ max_retry_count = 3

UrlDigest(url) == hash_url(canonicalize(url))

\* C9: a url and a content digest are marked seen in the deduplicator, in the
\* local sets or in the remote store, only once the document fetched from the
\* url has been passed to index_document.
C9_MarkedOnlyAfterIndexed ==
    /\ \A u \in marked_urls : \E e \in indexed : e[1] = u
    /\ \A h \in dedup.local_url_set_ : \E e \in indexed : UrlDigest(e[1]) = h
    /\ \A h \in dedup.local_content_set_ : \E e \in indexed : ContentKey(e[2]) = h
    /\ \A key \in redis_kv :
          \E e \in indexed : key = UrlRedisKey(UrlDigest(e[1])) \/ key = ContentRedisKey(e[2])

\* a url has been marked seen, after the document of its fetch was indexed
C9_Witness ==
    /\ pc = "mark_content_seen"
    /\ task.url \in marked_urls
    /\ \E e \in indexed : e[1] = task.url

\* C10: fetch is called only for a task whose url is_url_seen has just reported
\* unseen, and a task reported seen is marked completed instead;
\* index_document is called only for a body whose content digest
\* is_content_seen has just reported unseen.
C10_DedupGates ==
    [][ /\ (fetcher' # fetcher) =>
               (last_op.op = "is_url_seen" /\ last_op.arg = task.url /\ ~last_op.ret)
        /\ (indexer' # indexer) =>
               (last_op.op = "is_content_seen" /\ last_op.arg = fetch_result.content_hash
                  /\ ~last_op.ret)
        /\ (pc = "is_url_seen" /\ last_op'.ret) =>
               (pc' = "get_next_task"
                  /\ sched'.total_completed_ = sched.total_completed_ + 1) ]_vars

\* a task whose url was reported seen has been completed without a fetch
C10_Witness ==
    /\ pc = "get_next_task"
    /\ last_op.op = "is_url_seen" /\ last_op.ret
    /\ fetcher.total_fetches_ >= 1
    /\ sched.total_completed_ >= 2

\* the fetch logged at i succeeded (a 2xx answer)
Succeeded(i) == fetch_log[i][2] >= 200 /\ fetch_log[i][2] < 300

SuccessfulFetches == {i \in 1..Len(fetch_log) : Succeeded(i)}

\* the urls whose fetch returned the body
UrlsWithBody(body) == {fetch_log[i][1] : i \in {j \in SuccessfulFetches : fetch_log[j][3] = body}}

\* the index_document calls made for the body
DocsWithBody(body) == {e \in indexed : e[3] = body}

\* no url has been fetched successfully more than once
EachUrlFetchedOnce ==
    \A i, j \in SuccessfulFetches : fetch_log[i][1] = fetch_log[j][1] => i = j

\* the crawl loop is between two iterations, or over
BetweenIterations == pc \in {"get_next_task", "cleanup", "done"}

FetchedBodies == {fetch_log[i][3] : i \in SuccessfulFetches}

\* the bodies fetched so far are told apart by the content_hash string of
\* their fetch results
BodiesToldApart ==
    \A x, y \in FetchedBodies :
        x # y => HashToString(hash_content(x)) # HashToString(hash_content(y))

\* C11: when distinct urls return byte-identical bodies, exactly one document
\* is indexed for the body, and content_duplicates_ has been incremented once
\* for each of the other urls.
C11_IdenticalBodiesIndexedOnce ==
    (BetweenIterations /\ EachUrlFetchedOnce /\ BodiesToldApart) =>
        /\ \A body \in Pages :
              UrlsWithBody(body) # {} => Cardinality(DocsWithBody(body)) = 1
        /\ dedup.content_duplicates_ =
              SumOver([body \in Pages |->
                          IF UrlsWithBody(body) = {} THEN 0
                          ELSE Cardinality(UrlsWithBody(body)) - 1], Pages)

\* C12: the content-dedup key is the full 64-bit digest of the body:
\* is_content_seen reports the body of a fetch seen only when a body with the
\* same 64-bit digest has been indexed and marked before.
C12_FullDigestKey ==
    (last_op.op = "is_content_seen" /\ last_op.ret) =>
        \E e \in indexed : hash_content(e[3]) = hash_content(fetch_result.content)

\* the origin of an absolute url: its scheme and host
Origin(url) ==
    (IF StartsWithAt(url, 1, HttpsPrefix) THEN HttpsPrefix ELSE HttpPrefix)
        \o extract_domain(url)

\* the links of the page just parsed have been passed to add_url
LinksAdded == pc = "mark_completed"

\* C13: a link of the fetched page that starts with '/' is resolved against
\* the origin of the page's url and admitted to the frontier.
C13_RootRelativeLinksAdmitted ==
    LinksAdded =>
        \A i \in 1..Len(Hrefs(fetch_result.content)) :
            LET href == Hrefs(fetch_result.content)[i]
            IN  href[1] = 47 => (Origin(task.url) \o href) \in QueuedUrls

\* the fetch failed with a permanent error: an HTTP 4xx answer
PermanentFailure(result) ==
    ~result.success /\ result.http_status >= 400 /\ result.http_status < 500

\* C14: a task whose fetch failed with a permanent error is dropped, not
\* re-queued, and total_failed_ is incremented once for it.
C14_PermanentErrorsDropped ==
    [][ (pc = "check_fetch" /\ PermanentFailure(fetch_result)) =>
            /\ sched'.task_queue_ = sched.task_queue_
            /\ sched'.total_failed_ = sched.total_failed_ + 1 ]_vars

\* ------------------------------------------------------------------------
\* The Deduplicator under arbitrary call sequences (specification DedupSpec)
\* ------------------------------------------------------------------------
UrlAFrag == UrlA \o Str(<<"#", "f">>)

\* the urls passed to mark_url_seen and those passed to is_url_seen
ApiMarkUrls == {UrlAFrag, UrlB}
ApiQueryUrls == {UrlA, UrlB}

\* content-hash strings: the one-char strings "7" and "\xC8"
ApiContentHashes == {<<55>>}

DedupApiInit ==
    /\ now = 0
    /\ pc = "api"
    /\ task = CrawlTask
    /\ fetch_result = FetchResult
    /\ doc = ParsedDocument
    /\ sched = SchedulerInit
    /\ dedup = DedupInit
    /\ redis_kv = {}
    /\ fetcher = FetcherInit
    /\ indexer = IndexerInit
    /\ storage = {}
    /\ last_op = NoOp
    /\ degraded = FALSE
    /\ marked_urls = {}
    /\ indexed = {}
    /\ fetch_log = <<>>
    /\ retry_log = <<>>
    /\ fetched_at = <<>>
    /\ dequeued_at = 0
    /\ max_retry_count = 0
    /\ allocated = <<>>
    /\ queue_mutex_ = "free"
    /\ ctl = <<"idle">>
    /\ workers = 0
    /\ admitted = <<>>
    /\ got = [ret |-> FALSE, calls |-> 0]
    /\ CallInit

nonDedupVars == <<now, pc, task, fetch_result, doc, sched, fetcher, indexer, storage,
                  indexed, fetch_log, retry_log, fetched_at, dequeued_at, max_retry_count,
                  allocated, queue_mutex_, ctl, workers, admitted, got, callVars>>

\* the number of queries answered so far, from the object's own counters
Queries(d) == d.url_duplicates_ + d.content_duplicates_ + d.redis_misses_

ApiInitRedis ==
    /\ pc = "api"
    /\ \E connected \in BOOLEAN :
        DedupCall("init_redis", <<>>, init_redis(dedup, redis_kv, connected), FALSE)
    /\ UNCHANGED nonDedupVars

ApiEnableLocalFallback ==
    /\ pc = "api"
    /\ \E enable \in BOOLEAN :
        DedupCall("enable_local_fallback", <<>>,
                  enable_local_fallback(dedup, redis_kv, enable), FALSE)
    /\ UNCHANGED nonDedupVars

ApiIsUrlSeen ==
    /\ pc = "api"
    /\ Queries(dedup) < MaxOps
    /\ \E url \in ApiQueryUrls, fail \in ReplyFails(dedup) :
        DedupCall("is_url_seen", url, is_url_seen(dedup, redis_kv, url, fail), fail)
    /\ UNCHANGED nonDedupVars

ApiMarkUrlSeen ==
    /\ pc = "api"
    /\ \E url \in ApiMarkUrls, fail \in ReplyFails(dedup) :
        DedupCall("mark_url_seen", url, mark_url_seen(dedup, redis_kv, url, fail), fail)
    /\ UNCHANGED nonDedupVars

ApiIsContentSeen ==
    /\ pc = "api"
    /\ Queries(dedup) < MaxOps
    /\ \E h \in ApiContentHashes, fail \in ReplyFails(dedup) :
        DedupCall("is_content_seen", h, is_content_seen(dedup, redis_kv, h, fail), fail)
    /\ UNCHANGED nonDedupVars

ApiMarkContentSeen ==
    /\ pc = "api"
    /\ \E h \in ApiContentHashes, fail \in ReplyFails(dedup) :
        DedupCall("mark_content_seen", h,
                  mark_content_seen(dedup, redis_kv, h, 1, fail), fail)
    /\ UNCHANGED nonDedupVars

DedupNext ==
    \/ ApiInitRedis
    \/ ApiEnableLocalFallback
    \/ ApiIsUrlSeen
    \/ ApiMarkUrlSeen
    \/ ApiIsContentSeen
    \/ ApiMarkContentSeen

DedupSpec == DedupApiInit /\ [][DedupNext]_vars

DigestMarked(url) == \E m \in marked_urls : UrlDigest(m) = UrlDigest(url)

\* C6: is_url_seen(u) returns true exactly when the canonical digest of u was
\* recorded by an earlier mark_url_seen or is held by the remote store.
C6_SeenIffRecorded ==
    last_op.op = "is_url_seen" =>
        (last_op.ret <=> (DigestMarked(last_op.arg)
                            \/ UrlRedisKey(UrlDigest(last_op.arg)) \in redis_kv))

\* C7: a call of is_url_seen(u) made after the deduplicator has degraded
\* returns true exactly for the urls passed to mark_url_seen so far, those
\* marked while the remote store was available included.
C7_DegradedSeesOwnMarks ==
    (last_op.op = "is_url_seen" /\ last_op.degraded) =>
        (last_op.ret <=> DigestMarked(last_op.arg))

QueryAndMarkOps == {"is_url_seen", "mark_url_seen", "is_content_seen", "mark_content_seen"}

\* C8: once a remote command has failed, the deduplicator is local-only (the
\* remote store is not available to it) and no call of is_url_seen,
\* mark_url_seen, is_content_seen or mark_content_seen issues a remote command,
\* until init_redis is called again.
C8_DegradationOneWay ==
    /\ degraded => ~dedup.redis_available_
    /\ (last_op.degraded /\ last_op.op \in QueryAndMarkOps)
           => (last_op.cmds = 0 /\ degraded)

\* a url is marked after the remote store failed under an open connection
C8_Witness ==
    /\ last_op.op = "mark_url_seen"
    /\ last_op.degraded
    /\ dedup.redis_context_
    /\ redis_kv # {}

\* ------------------------------------------------------------------------
\* The Scheduler under arbitrary call sequences of one caller (specification
\* SchedulerSpec).  pc tells whether the caller holds a task that
\* get_next_task returned and that it has not reported yet.
\* ------------------------------------------------------------------------
UrlA1 == UrlA \o Str(<<"/", "1">>)
UrlB1 == UrlB \o Str(<<"/", "1">>)

\* the urls passed to add_url, in the order of the calls, and the priorities
ApiUrls == <<UrlA, UrlB, UrlA1, UrlB1>>
ApiPriorities == {0, 1}

Idle == <<"idle">>

SchedulerApiInit ==
    /\ now = 0
    /\ pc = "sched_api"
    /\ task = CrawlTask
    /\ fetch_result = FetchResult
    /\ doc = ParsedDocument
    /\ sched = SchedulerInit
    /\ dedup = DedupInit
    /\ redis_kv = {}
    /\ fetcher = FetcherInit
    /\ indexer = IndexerInit
    /\ storage = {}
    /\ last_op = NoOp
    /\ degraded = FALSE
    /\ marked_urls = {}
    /\ indexed = {}
    /\ fetch_log = <<>>
    /\ retry_log = <<>>
    /\ fetched_at = <<>>
    /\ dequeued_at = 0
    /\ max_retry_count = 0
    /\ allocated = <<>>
    /\ queue_mutex_ = "free"
    /\ ctl = Idle
    /\ workers = 0
    /\ admitted = <<>>
    /\ got = [ret |-> FALSE, calls |-> 0]
    /\ CallInit

nonSchedulerVars == <<fetch_result, doc, dedup, redis_kv, fetcher, indexer, storage, last_op,
                      degraded, marked_urls, indexed, fetch_log, retry_log, fetched_at,
                      dequeued_at, max_retry_count, allocated>>

\* a wait loop that goes on for as long as the queue is empty
WaitLoopContinues_ignores_running(s) == s.task_queue_ = <<>>

\* while (task_queue_.empty() && running_): the condition of the wait loop
WaitLoopContinues(s) == s.task_queue_ = <<>> /\ s.running_

\* scheduler.start(); the worker threads return at once
ApiStart ==
    /\ pc = "sched_api"
    /\ ~sched.running_
    /\ sched' = start(sched)
    /\ UNCHANGED <<now, pc, task, queue_mutex_, ctl, workers, admitted, got, callVars>>
    /\ UNCHANGED nonSchedulerVars

\* scheduler.add_url(url, priority) for the next url of ApiUrls
ApiAddUrl ==
    /\ sched.total_scheduled_ < Len(ApiUrls)
    /\ \E priority \in ApiPriorities :
        LET url == ApiUrls[sched.total_scheduled_ + 1]
            r == add_url(sched, url, priority, now)
        IN  /\ sched' = r.s
            /\ admitted' = IF r.ret THEN Append(admitted, canonicalize(url)) ELSE admitted
    /\ UNCHANGED <<now, pc, task, queue_mutex_, ctl, workers, got, callVars>>
    /\ UNCHANGED nonSchedulerVars

\* scheduler.get_next_task(task), when the call returns
ApiGetNextTask ==
    /\ pc = "sched_api"
    /\ ~WaitLoopContinues(sched)
    /\ got.calls < MaxCalls
    /\ LET r == get_next_task(sched, task, now)
       IN  /\ sched' = r.s
           /\ task' = r.task
           /\ got' = [ret |-> r.ret, calls |-> got.calls + 1]
           /\ pc' = IF r.ret THEN "sched_api_task" ELSE "sched_api"
    /\ UNCHANGED <<now, queue_mutex_, ctl, workers, admitted, callVars>>
    /\ UNCHANGED nonSchedulerVars

\* scheduler.mark_completed(task.url)
ApiMarkCompleted ==
    /\ pc = "sched_api_task"
    /\ sched' = mark_completed(sched, task.url)
    /\ pc' = "sched_api"
    /\ UNCHANGED <<now, task, queue_mutex_, ctl, workers, admitted, got, callVars>>
    /\ UNCHANGED nonSchedulerVars

\* scheduler.mark_failed(task.url, will_retry)
ApiMarkFailed ==
    /\ pc = "sched_api_task"
    /\ \E will_retry \in BOOLEAN :
        /\ sched' = mark_failed(sched, task.url, will_retry, now)
        /\ admitted' = IF will_retry THEN Append(admitted, task.url) ELSE admitted
    /\ pc' = "sched_api"
    /\ UNCHANGED <<now, task, queue_mutex_, ctl, workers, got, callVars>>
    /\ UNCHANGED nonSchedulerVars

\* time passes between two calls
ApiTick ==
    /\ \E d \in FetchDurations \ {0} :
        /\ now + d <= MaxApiTime
        /\ now' = now + d
    /\ UNCHANGED <<pc, task, sched, queue_mutex_, ctl, workers, admitted, got, callVars>>
    /\ UNCHANGED nonSchedulerVars

SchedulerNext ==
    \/ ApiStart
    \/ ApiAddUrl
    \/ ApiGetNextTask
    \/ ApiMarkCompleted
    \/ ApiMarkFailed
    \/ ApiTick

SchedulerSpec == SchedulerApiInit /\ [][SchedulerNext]_vars

\* ------------------------------------------------------------------------
\* Properties of the frontier (specification SchedulerSpec)
\* ------------------------------------------------------------------------
\* the place of the last admission of url in the order of admissions
AdmissionIndex(url) ==
    CHOOSE i \in 1..Len(admitted) :
        admitted[i] = url /\ \A j \in (i + 1)..Len(admitted) : admitted[j] # url

\* the queued task q passes the two gates of get_next_task at time t
Ready(s, q, t) == t >= q.next_retry_time /\ can_fetch_domain(s, extract_domain(q.url), t)

\* C15: get_next_task returns the tasks in priority order, higher first, and
\* tasks of equal priority in the order of their admission: no task left in
\* the queue that could have been returned has a higher priority than the
\* returned one, or the same priority and an earlier admission.
C15_PriorityThenAdmissionOrder ==
    [][ (pc = "sched_api" /\ pc' = "sched_api_task") =>
            \A i \in 1..Len(sched'.task_queue_) :
                LET q == sched'.task_queue_[i]
                IN  Ready(sched', q, now) =>
                        \/ q.priority < task'.priority
                        \/ /\ q.priority = task'.priority
                           /\ AdmissionIndex(task'.url) < AdmissionIndex(q.url) ]_vars

\* ------------------------------------------------------------------------
\* The Scheduler under concurrent callers (specifications FrontierSpec and
\* FairFrontierSpec)
\*
\* Two threads use the frontier: the consumer, which calls get_next_task
\* time and again (pc is its position, task its CrawlTask object), and a
\* second thread, which calls start, add_url and at last stop (ctl is its
\* call in progress).  A thread takes queue_mutex_ when it is free.  The
\* worker threads that start spawns run worker_thread, which returns at once.
\* ------------------------------------------------------------------------
\* the urls passed to add_url, in the order of the calls
FrontierUrls == <<UrlA, UrlB>>

FrontierInit ==
    /\ now = 0
    /\ pc = "idle"
    /\ task = CrawlTask
    /\ fetch_result = FetchResult
    /\ doc = ParsedDocument
    /\ sched = SchedulerInit
    /\ dedup = DedupInit
    /\ redis_kv = {}
    /\ fetcher = FetcherInit
    /\ indexer = IndexerInit
    /\ storage = {}
    /\ last_op = NoOp
    /\ degraded = FALSE
    /\ marked_urls = {}
    /\ indexed = {}
    /\ fetch_log = <<>>
    /\ retry_log = <<>>
    /\ fetched_at = <<>>
    /\ dequeued_at = 0
    /\ max_retry_count = 0
    /\ allocated = <<>>
    /\ queue_mutex_ = "free"
    /\ ctl = Idle
    /\ workers = 0
    /\ admitted = <<>>
    /\ got = [ret |-> FALSE, calls |-> 0]
    /\ CallInit

\* start(): running_ = true and the worker threads are spawned
ThreadStart ==
    /\ ctl = Idle
    /\ ~sched.running_ /\ sched.workers_ = 0
    /\ sched' = start(sched)
    /\ workers' = workers + worker_threads_
    /\ UNCHANGED <<now, pc, task, queue_mutex_, ctl, admitted, got, callVars>>
    /\ UNCHANGED nonSchedulerVars

\* worker_thread() of one worker returns
WorkerReturn ==
    /\ workers > 0
    /\ workers' = workers - 1
    /\ UNCHANGED <<now, pc, task, sched, queue_mutex_, ctl, admitted, got, callVars>>
    /\ UNCHANGED nonSchedulerVars

\* add_url(url) is called: an invalid url returns at once, a valid one goes
\* on to take the queue mutex
ThreadAddUrlCall ==
    /\ ctl = Idle
    /\ sched.total_scheduled_ < Len(FrontierUrls)
    /\ LET url == FrontierUrls[sched.total_scheduled_ + 1]
       IN  ctl' = IF is_valid(canonicalize(url)) THEN <<"add_url", url>> ELSE Idle
    /\ UNCHANGED <<now, pc, task, sched, queue_mutex_, workers, admitted, got, callVars>>
    /\ UNCHANGED nonSchedulerVars

\* add_url: the block that holds queue_mutex_
ThreadAddUrlPush ==
    /\ ctl[1] = "add_url"
    /\ queue_mutex_ = "free"
    /\ sched' = add_url(sched, ctl[2], 0, now).s
    /\ admitted' = Append(admitted, canonicalize(ctl[2]))
    /\ ctl' = Idle
    /\ UNCHANGED <<now, pc, task, queue_mutex_, workers, got, callVars>>
    /\ UNCHANGED nonSchedulerVars

\* stop(): running_ = false
ThreadStopSignal ==
    /\ ctl = Idle
    /\ sched.running_
    /\ sched' = [sched EXCEPT !.running_ = FALSE]
    /\ ctl' = <<"stop">>
    /\ UNCHANGED <<now, pc, task, queue_mutex_, workers, admitted, got, callVars>>
    /\ UNCHANGED nonSchedulerVars

\* stop(): every worker has been joined, workers_.clear(), return; the
\* thread makes no call after it
ThreadStopJoin ==
    /\ ctl = <<"stop">>
    /\ workers = 0
    /\ sched' = stop(sched)
    /\ ctl' = <<"stopped">>
    /\ UNCHANGED <<now, pc, task, queue_mutex_, workers, admitted, got, callVars>>
    /\ UNCHANGED nonSchedulerVars

\* get_next_task: std::unique_lock<std::mutex> lock(queue_mutex_)
ConsumerLock ==
    /\ pc = "idle"
    /\ queue_mutex_ = "free"
    /\ queue_mutex_' = "consumer"
    /\ pc' = "get_next_task"
    /\ UNCHANGED <<now, task, sched, ctl, workers, admitted, got, callVars>>
    /\ UNCHANGED nonSchedulerVars

\* get_next_task: one round of the wait loop, with the mutex held
ConsumerWait ==
    /\ pc = "get_next_task"
    /\ WaitLoopContinues(sched)
    /\ now + wait_sleep_ms <= MaxApiTime
    /\ now' = now + wait_sleep_ms
    /\ UNCHANGED <<pc, task, sched, queue_mutex_, ctl, workers, admitted, got, callVars>>
    /\ UNCHANGED nonSchedulerVars

\* get_next_task: the wait loop is left, the call returns and releases the mutex
ConsumerReturn ==
    /\ pc = "get_next_task"
    /\ ~WaitLoopContinues(sched)
    /\ LET r == get_next_task(sched, task, now)
       IN  /\ sched' = r.s
           /\ task' = r.task
           /\ got' = [ret |-> r.ret, calls |-> IF r.ret THEN got.calls + 1 ELSE got.calls]
    /\ queue_mutex_' = "free"
    /\ pc' = "idle"
    /\ UNCHANGED <<now, ctl, workers, admitted, callVars>>
    /\ UNCHANGED nonSchedulerVars

FrontierNext ==
    \/ ThreadStart
    \/ WorkerReturn
    \/ ThreadAddUrlCall
    \/ ThreadAddUrlPush
    \/ ThreadStopSignal
    \/ ThreadStopJoin
    \/ ConsumerLock
    \/ ConsumerWait
    \/ ConsumerReturn

FrontierSpec == FrontierInit /\ [][FrontierNext]_vars

\* a thread that can run gets to run: the consumer leaves get_next_task when
\* it can, the workers return, the stopping thread finishes its joins
FairFrontierSpec ==
    /\ FrontierSpec
    /\ WF_vars(ConsumerReturn)
    /\ WF_vars(WorkerReturn)
    /\ WF_vars(ThreadStopJoin)

\* stop() has set running_ to false
StopSignalled == ctl \in {<<"stop">>, <<"stopped">>}

\* C16: once running_ is false, a get_next_task caller on the drained queue,
\* one that was waiting included, eventually gets the terminal outcome, and
\* stop() returns after the join of the worker threads.
C16_StopEndsWaitersAndJoins ==
    /\ (StopSignalled /\ pc = "get_next_task" /\ sched.task_queue_ = <<>>)
           ~> (pc = "idle" /\ ~got.ret)
    /\ (ctl = <<"stop">>) ~> (ctl = <<"stopped">> /\ sched.workers_ = 0)

\* stop() has returned and the consumer, which waited on the empty queue, has
\* got the terminal outcome
C16_Witness ==
    /\ ctl = <<"stopped">>
    /\ now > 0
    /\ pc = "idle" /\ ~got.ret /\ sched.task_queue_ = <<>>

\* ------------------------------------------------------------------------
\* The Indexer called through its public interface (specifications
\* IndexerSpec and SerialIndexerSpec)
\*
\* In IndexerSpec two threads call index_document, each time and again, and
\* a third calls flush_segment.  ctl[c] is the call in progress of caller c:
\* the position it has reached, its ParsedDocument and the doc id it has read.
\* The positions are "lock" (at the lock_guard), "read" and "incr" (the read
\* and the write of next_doc_id_++) and "body" (the rest of the function);
\* the caller holds index_mutex_ from "read" until it returns.
\* ------------------------------------------------------------------------
IndexCallers == 1..2

\* a ParsedDocument whose term_positions has the empty string among its keys
DocEmptyTerm ==
    [ParsedDocument EXCEPT !.url = UrlB,
                           !.term_positions = (<<>> :> <<0>>) @@ (Str(<<"b">>) :> <<1>>)]

IndexInputs == {parse(UrlA, PageA), parse(UrlB, PageB), parse(UrlB, PageC), DocEmptyTerm}

IndexerApiInit ==
    /\ now = 0
    /\ pc = "indexer_api"
    /\ task = CrawlTask
    /\ fetch_result = FetchResult
    /\ doc = ParsedDocument
    /\ sched = SchedulerInit
    /\ dedup = DedupInit
    /\ redis_kv = {}
    /\ fetcher = FetcherInit
    /\ indexer = IndexerInit
    /\ storage = {}
    /\ last_op = NoOp
    /\ degraded = FALSE
    /\ marked_urls = {}
    /\ indexed = {}
    /\ fetch_log = <<>>
    /\ retry_log = <<>>
    /\ fetched_at = <<>>
    /\ dequeued_at = 0
    /\ max_retry_count = 0
    /\ allocated = <<>>
    /\ queue_mutex_ = "free"
    /\ ctl = [c \in IndexCallers |-> Idle]
    /\ workers = 0
    /\ admitted = <<>>
    /\ got = [ret |-> FALSE, calls |-> 0]
    /\ CallInit

nonIndexerVars == <<now, pc, task, fetch_result, doc, sched, dedup, redis_kv, fetcher, storage,
                    last_op, degraded, marked_urls, indexed, fetch_log, retry_log, fetched_at,
                    dequeued_at, max_retry_count, queue_mutex_, workers, admitted, got, callVars>>

\* the position of caller c in index_document
Position(c) == IF ctl[c] = Idle THEN "idle" ELSE ctl[c][2]

\* the calls of index_document made so far, those in progress included
IndexCalls == indexer.total_documents_ + Cardinality({c \in IndexCallers : ctl[c] # Idle})

\* a lock_guard that never waits
index_mutex_not_taken == TRUE

\* index_mutex_ is free: no caller is between its lock_guard and its return
index_mutex_free == \A c \in IndexCallers : Position(c) \in {"idle", "lock"}

\* index_document(parsed_doc) is called
IndexCall(c) ==
    /\ pc = "indexer_api"
    /\ ctl[c] = Idle
    /\ IndexCalls < MaxDocs
    /\ \E parsed_doc \in IndexInputs :
        ctl' = [ctl EXCEPT ![c] = <<"index_document", "lock", parsed_doc, 0>>]
    /\ UNCHANGED <<indexer, allocated>>
    /\ UNCHANGED nonIndexerVars

\* std::lock_guard<std::mutex> lock(index_mutex_)
IndexLock(c) ==
    /\ pc = "indexer_api"
    /\ Position(c) = "lock"
    /\ index_mutex_free
    /\ ctl' = [ctl EXCEPT ![c][2] = "read"]
    /\ UNCHANGED <<indexer, allocated>>
    /\ UNCHANGED nonIndexerVars

\* doc.doc_id = next_doc_id_++: the read of next_doc_id_
IndexReadDocId(c) ==
    /\ pc = "indexer_api"
    /\ Position(c) = "read"
    /\ ctl' = [ctl EXCEPT ![c][2] = "incr", ![c][4] = indexer.next_doc_id_]
    /\ UNCHANGED <<indexer, allocated>>
    /\ UNCHANGED nonIndexerVars

\* doc.doc_id = next_doc_id_++: the write of next_doc_id_
IndexWriteDocId(c) ==
    /\ pc = "indexer_api"
    /\ Position(c) = "incr"
    /\ indexer' = [indexer EXCEPT !.next_doc_id_ = ctl[c][4] + 1]
    /\ allocated' = Append(allocated, ctl[c][4])
    /\ ctl' = [ctl EXCEPT ![c][2] = "body"]
    /\ UNCHANGED nonIndexerVars

\* the rest of index_document; the return releases index_mutex_
IndexBody(c) ==
    /\ pc = "indexer_api"
    /\ Position(c) = "body"
    /\ indexer' = index_document_body(indexer, ctl[c][4], ctl[c][3])
    /\ ctl' = [ctl EXCEPT ![c] = Idle]
    /\ UNCHANGED allocated
    /\ UNCHANGED nonIndexerVars

\* flush_segment(), which takes no lock, called with a segment to flush
IndexFlushSegment ==
    /\ pc = "indexer_api"
    /\ indexer.current_segment_size_ # 0
    /\ indexer' = flush_segment(indexer)
    /\ UNCHANGED <<ctl, allocated>>
    /\ UNCHANGED nonIndexerVars

IndexerNext ==
    \/ \E c \in IndexCallers :
        \/ IndexCall(c)
        \/ IndexLock(c)
        \/ IndexReadDocId(c)
        \/ IndexWriteDocId(c)
        \/ IndexBody(c)
    \/ IndexFlushSegment

IndexerSpec == IndexerApiInit /\ [][IndexerNext]_vars

\* C17: every index_document call, the calls of concurrent callers included,
\* allocates a doc id that no earlier call was given and that is greater than
\* every doc id allocated before it.
C17_DocIdsFreshAndIncreasing ==
    \A i, j \in 1..Len(allocated) : i < j => allocated[i] < allocated[j]

\* two doc ids have been allocated, one caller is in the body of
\* index_document and the other waits for the mutex
C17_Witness ==
    /\ Len(allocated) >= 2
    /\ \E c, d \in IndexCallers : Position(c) = "body" /\ Position(d) = "lock"

\* C18: the posting list of every term is in strictly ascending order of doc
\* id, so that no term has two postings for one doc id.
C18_PostingListsAscending ==
    \A t \in DOMAIN indexer.inverted_index_ :
        LET postings == indexer.inverted_index_[t]
        IN  \A i, j \in 1..Len(postings) : i < j => postings[i].doc_id < postings[j].doc_id

\* a term has a posting list of two postings or more
C18_Witness ==
    \E t \in DOMAIN indexer.inverted_index_ : Len(indexer.inverted_index_[t]) >= 2

\* the postings of the inverted index that reference doc_id, as (term, index) pairs
PostingsOf(ix, doc_id) ==
    {e \in UNION {{<<t, i>> : i \in 1..Len(ix.inverted_index_[t])} : t \in DOMAIN ix.inverted_index_} :
        ix.inverted_index_[e[1]][e[2]].doc_id = doc_id}

\* the positions held by the postings that reference doc_id
PositionCount(ix, doc_id) ==
    LET refs == PostingsOf(ix, doc_id)
    IN  SumOver([e \in refs |-> Len(ix.inverted_index_[e[1]][e[2]].positions)], refs)

\* C19: for every doc id of the forward index, doc_lengths_ holds the number
\* of positions of all the postings of the inverted index that reference it.
C19_DocLengthIsPositionCount ==
    \A doc_id \in DOMAIN indexer.forward_index_ :
        /\ doc_id \in DOMAIN indexer.doc_lengths_
        /\ indexer.doc_lengths_[doc_id] = PositionCount(indexer, doc_id)

\* two documents are indexed, one of them with two postings that hold three
\* positions between them
C19_Witness ==
    /\ Cardinality(DOMAIN indexer.forward_index_) >= 2
    /\ \E doc_id \in DOMAIN indexer.forward_index_ :
        /\ Cardinality(PostingsOf(indexer, doc_id)) = 2
        /\ indexer.doc_lengths_[doc_id] = 3

\* ------------------------------------------------------------------------
\* SerialIndexerSpec: one thread calls index_document time and again, with
\* documents of two and of five positions.
\* ------------------------------------------------------------------------
DocTwo ==
    [ParsedDocument EXCEPT !.url = UrlA, !.term_positions = (Str(<<"a">>) :> <<0, 1>>)]

DocFive ==
    [ParsedDocument EXCEPT !.url = UrlB,
                           !.term_positions = (Str(<<"a">>) :> <<0, 1, 2>>) @@ (Str(<<"b">>) :> <<3, 4>>)]

SerialInputs == {DocTwo, DocFive}

\* indexer.index_document(parsed_doc), from the call to the return
SerialIndexDocument ==
    /\ pc = "indexer_api"
    /\ \A c \in IndexCallers : ctl[c] = Idle
    /\ indexer.total_documents_ < MaxSerialDocs
    /\ \E parsed_doc \in SerialInputs :
        indexer' = index_document(indexer, parsed_doc)
    /\ allocated' = Append(allocated, indexer.next_doc_id_)
    /\ UNCHANGED ctl
    /\ UNCHANGED nonIndexerVars

SerialIndexerNext == SerialIndexDocument

SerialIndexerSpec == IndexerApiInit /\ [][SerialIndexerNext]_vars

\* the sum of the recorded document lengths
TotalLength(ix) == SumOver(ix.doc_lengths_, DOMAIN ix.doc_lengths_)

\* the sum of the document lengths divided by the number of documents, in double
QuotientAverage(ix) == F64Div(F64FromInt(TotalLength(ix)), ix.total_documents_)

\* C20 as stated: after every index_document call avg_doc_length_ is equal to
\* the sum of the recorded document lengths divided by the document count.
C20_AverageIsQuotient ==
    indexer.total_documents_ > 0 => indexer.avg_doc_length_ = QuotientAverage(indexer)

\* | x - k | for the fixed-point number x and the integer k
AbsDiff(x, k) ==
    IF x.int >= k THEN [int |-> x.int - k, frac |-> x.frac]
    ELSE IF x.frac = <<>> THEN [int |-> k - x.int, frac |-> <<>>]
    ELSE [int |-> k - x.int - 1,
          frac |-> [i \in 1..Len(x.frac) |->
                       IF i = Len(x.frac) THEN LimbBase - x.frac[i] ELSE LimbBase - 1 - x.frac[i]]]

\* x <= m * LimbBase^-3, that is m * 2^-48, for the fixed-point number x and
\* the integer m
AtMostScaled(x, m) ==
    LET limb(j) == IF j <= Len(x.frac) THEN x.frac[j] ELSE 0
        v == limb(2) * LimbBase + limb(3)
    IN  /\ x.int = 0
        /\ limb(1) = 0
        /\ limb(2) < LimbBase \div 2
        /\ v < m \/ (v = m /\ Len(x.frac) <= 3)

\* C20, amended: after every index_document call avg_doc_length_ is the sum
\* of the recorded document lengths divided by the document count up to the
\* rounding of double: with n documents of total length s,
\* | n * avg_doc_length_ - s | <= s * n * 2^-48.
C20_AverageWithinRounding ==
    LET n == indexer.total_documents_
        s == TotalLength(indexer)
        d == AbsDiff(MulExact(indexer.avg_doc_length_, n), s)
    IN  n > 0 => IF s = 0 THEN indexer.avg_doc_length_ = F64FromInt(0)
                 ELSE AtMostScaled(d, s * n)

\* a state in which rounding shows: the running average of eight documents
\* or more is not the double nearest to the quotient
C20_Witness ==
    /\ indexer.total_documents_ >= 8
    /\ indexer.avg_doc_length_ # QuotientAverage(indexer)

\* ---------------------------------------------------------------------------
\* SearchSpec: one thread indexes documents and searches them, each call
\* running from its first statement to its return.

\* Parser::parse from "doc.tokens = tokenize(doc.text_content)" on, for a page
\* whose text is text_content
DocOfText(url, text_content) ==
    [ParsedDocument EXCEPT !.url = url,
                           !.text_content = text_content,
                           !.tokens = tokenize(text_content),
                           !.term_positions = TermPositionsFrom(tokenize(text_content), 1, <<>>)]

TextCatDog == Str(<<"c", "a", "t", " ", "d", "o", "g">>)

TextCat == Str(<<"c", "a", "t">>)

TextDogDog == Str(<<"d", "o", "g", " ", "d", "o", "g">>)

SearchInputs == {DocOfText(UrlA, TextCatDog), DocOfText(UrlB, TextCat), DocOfText(UrlB, TextDogDog)}

SearchQueries ==
    {TextCatDog, Str(<<"C", "a", "t", " ", " ", "b">>),
     <<>>, Str(<<" ">>), Str(<<" ", " ">>)}

\* the values of the "topk" request parameter
SearchTopKs == {-1, 0, 1, 2, 10}

\* indexer.index_document(parsed_doc)
SearchIndexDocument ==
    /\ pc = "indexer_api"
    /\ indexer.total_documents_ < MaxSearchDocs
    /\ \E parsed_doc \in SearchInputs :
        indexer' = index_document(indexer, parsed_doc)
    /\ allocated' = Append(allocated, indexer.next_doc_id_)
    /\ searched' = NoSearch
    /\ UNCHANGED <<now, pc, task, fetch_result, doc, sched, dedup, redis_kv, fetcher, storage,
                   last_op, degraded, marked_urls, indexed, fetch_log, retry_log, fetched_at,
                   dequeued_at, max_retry_count, queue_mutex_, ctl, workers, admitted, got, canon,
                   hops, backoff_mutex_, callers>>

\* indexer.search(query, topk).  A search leaves the Indexer as it is: the
\* searches of one index are taken one by one from the state the index is in.
SearchCall ==
    /\ pc = "indexer_api"
    /\ ~searched.called
    /\ \E query \in SearchQueries :
        \E doc_scores \in {score_documents(indexer, query_terms(query), 1, <<>>)} :
            \E sorted \in scored_docs_sorted(doc_scores), topk \in SearchTopKs :
                searched' = [query |-> query, topk |-> topk, called |-> TRUE,
                             results |-> build_results(indexer, doc_scores, sorted, topk)]
    /\ UNCHANGED <<now, pc, task, fetch_result, doc, sched, dedup, redis_kv, fetcher, indexer,
                   storage, last_op, degraded, marked_urls, indexed, fetch_log, retry_log,
                   fetched_at, dequeued_at, max_retry_count, allocated, queue_mutex_, ctl,
                   workers, admitted, got, canon, hops, backoff_mutex_, callers>>

SearchNext ==
    \/ SearchIndexDocument
    \/ SearchCall

SearchSpec == IndexerApiInit /\ [][SearchNext]_vars

\* the doc ids of a result list
ResultIds(results) == {results[i].doc_id : i \in 1..Len(results)}

\* document d holds one of the terms of the query
HasQueryTerm(ix, d, query) ==
    LET terms == query_terms(query)
    IN  \E i \in 1..Len(terms) : terms[i] \in DOMAIN ix.forward_index_[d].term_positions

\* C21: a search whose topk is at least the number of indexed documents
\* returns an indexed document if and only if the document's term positions
\* hold at least one of the terms of the query.
C21_ResultsAreTheMatchingDocs ==
    (searched.called /\ searched.topk >= indexer.total_documents_) =>
        \A d \in DOMAIN indexer.forward_index_ :
            d \in ResultIds(searched.results) <=> HasQueryTerm(indexer, d, searched.query)

\* a search of two documents or more that returns one and leaves one out
C21_Witness ==
    /\ searched.called
    /\ searched.topk >= indexer.total_documents_
    /\ indexer.total_documents_ >= 2
    /\ \E d \in DOMAIN indexer.forward_index_ : d \in ResultIds(searched.results)
    /\ \E d \in DOMAIN indexer.forward_index_ : d \notin ResultIds(searched.results)

\* the index holds exactly the documents of the texts "cat dog", "cat" and
\* "dog dog", indexed in that order
IndexedCatDogTexts ==
    /\ indexer.total_documents_ = 3
    /\ DOMAIN indexer.forward_index_ = {1, 2, 3}
    /\ indexer.forward_index_[1].text_content = TextCatDog
    /\ indexer.forward_index_[2].text_content = TextCat
    /\ indexer.forward_index_[3].text_content = TextDogDog

\* C23: with the texts "cat dog", "cat" and "dog dog" indexed in that order,
\* search("cat dog", 10) returns the three documents, the first of them
\* ahead of the other two with a score strictly above theirs.
C23_BothTermsRankFirst ==
    (IndexedCatDogTexts /\ searched.called /\ searched.query = TextCatDog /\ searched.topk = 10) =>
        /\ Len(searched.results) = 3
        /\ searched.results[1].doc_id = 1
        /\ \A i \in 2..3 : CmpExact(searched.results[1].score, searched.results[i].score) > 0

\* the search of C23 has been made
C23_Witness ==
    /\ IndexedCatDogTexts
    /\ searched.called
    /\ searched.query = TextCatDog
    /\ searched.topk = 10
    /\ Len(searched.results) = 3

\* C22: the results of a search are in descending order of score, results
\* of equal score in ascending order of doc id.
C22_SortedByScoreThenDocId ==
    searched.called =>
        \A i, j \in 1..Len(searched.results) :
            i < j =>
                LET c == CmpExact(searched.results[i].score, searched.results[j].score)
                IN  c > 0 \/ (c = 0 /\ searched.results[i].doc_id < searched.results[j].doc_id)

\* C24: a search returns at most topk results, and none when topk is zero
\* (or below).
C24_AtMostTopK ==
    searched.called =>
        Len(searched.results) <= (IF searched.topk > 0 THEN searched.topk ELSE 0)

\* the query holds nothing but white space
IsBlank(query) == \A i \in 1..Len(query) : IsSpace(query[i])

\* C25: a search with an empty query, or one of white space only, returns
\* the empty list.
C25_BlankQueryFindsNothing ==
    (searched.called /\ IsBlank(searched.query)) => searched.results = <<>>

\* a query of blanks was searched in an index of two documents, topk being
\* positive
C25_Witness ==
    /\ searched.called
    /\ Len(searched.query) >= 2
    /\ IsBlank(searched.query)
    /\ searched.topk > 0
    /\ indexer.total_documents_ >= 2

\* what a caller can observe of the deduplicator: the two seen sets of urls
\* and the answer is_url_seen gives for each url when its remote command, if
\* it issues one, is answered
ObservableUrls(d, kv) ==
    [local_url_set_ |-> d.local_url_set_,
     remote |-> {UrlRedisKey(UrlDigest(u)) : u \in ApiQueryUrls} \cap kv,
     answers |-> [u \in ApiQueryUrls |-> is_url_seen(d, kv, u, FALSE).ret]]

\* C26: mark_url_seen(u) called right after mark_url_seen(u) leaves what can
\* be observed as the first call left it: the answers of is_url_seen for
\* every url, and the seen sets.
C26_SecondMarkChangesNothing ==
    [][(/\ last_op.op = "mark_url_seen"
        /\ last_op'.op = "mark_url_seen"
        /\ last_op'.arg = last_op.arg)
          => ObservableUrls(dedup', redis_kv') = ObservableUrls(dedup, redis_kv)]_vars

\* ---------------------------------------------------------------------------
\* CanonSpec: canonicalize applied to one url string and to a second
\* spelling of it, applied again to its own result, and a fresh Deduplicator
\* (no remote store) that marks the url and is then asked for the second
\* spelling.

\* every string of at most MaxUrlLen characters out of "a", "/" and "#"
CanonAlphabet == {Ord("a"), Ord("/"), Ord("#")}

CanonStrings == UNION {[1..n -> CanonAlphabet] : n \in 0..MaxUrlLen}

UrlBUpperHost == Str(<<"h", "t", "t", "p", "s", ":", "/", "/", "B", ".", "c", "o", "m">>)

UrlBHttp == Str(<<"h", "t", "t", "p", ":", "/", "/", "b", ".", "c", "o", "m">>)

UrlBHttpPort == UrlBHttp \o Str(<<":", "8", "0">>)

UrlBQuery == UrlB \o Str(<<"/", "?", "a", "=", "1", "&", "b", "=", "2">>)

UrlBQuerySwapped == UrlB \o Str(<<"/", "?", "b", "=", "2", "&", "a", "=", "1">>)

\* pairs of spellings of one url: the case of the host, the default port of
\* the scheme, a fragment, the order of the query parameters
SpellingPairs ==
    {<<UrlB, UrlBUpperHost>>, <<UrlBHttp, UrlBHttpPort>>, <<UrlA, UrlAFrag>>,
     <<UrlBQuery, UrlBQuerySwapped>>}

CanonInputs == {<<u, u>> : u \in CanonStrings} \cup SpellingPairs

CanonInit ==
    /\ now = 0
    /\ pc = "canon_api"
    /\ task = CrawlTask
    /\ fetch_result = FetchResult
    /\ doc = ParsedDocument
    /\ sched = SchedulerInit
    /\ dedup = DedupInit
    /\ redis_kv = {}
    /\ fetcher = FetcherInit
    /\ indexer = IndexerInit
    /\ storage = {}
    /\ last_op = NoOp
    /\ degraded = FALSE
    /\ marked_urls = {}
    /\ indexed = {}
    /\ fetch_log = <<>>
    /\ retry_log = <<>>
    /\ fetched_at = <<>>
    /\ dequeued_at = 0
    /\ max_retry_count = 0
    /\ allocated = <<>>
    /\ queue_mutex_ = "free"
    /\ ctl = <<"idle">>
    /\ workers = 0
    /\ admitted = <<>>
    /\ got = [ret |-> FALSE, calls |-> 0]
    /\ searched = NoSearch
    /\ hops = NoHops
    /\ backoff_mutex_ = "free"
    /\ callers = NoCallers
    /\ \E p \in CanonInputs : canon = [NoCanon EXCEPT !.url = p[1], !.other = p[2]]

nonCanonVars == <<now, pc, task, fetch_result, doc, sched, fetcher, indexer, storage,
                  indexed, fetch_log, retry_log, fetched_at, dequeued_at, max_retry_count,
                  allocated, queue_mutex_, ctl, workers, admitted, got, searched, hops,
                  backoff_mutex_, callers>>

\* UrlUtils::canonicalize(url), and UrlUtils::canonicalize(other)
CanonCall ==
    /\ canon.phase = 0
    /\ canon' = [canon EXCEPT !.out = canonicalize(canon.url),
                              !.other_out = canonicalize(canon.other),
                              !.phase = 1]
    /\ UNCHANGED dedupVars
    /\ UNCHANGED nonCanonVars

\* UrlUtils::canonicalize on the result of the first call
CanonAgain ==
    /\ canon.phase = 1
    /\ canon' = [canon EXCEPT !.again = canonicalize(canon.out), !.phase = 2]
    /\ UNCHANGED dedupVars
    /\ UNCHANGED nonCanonVars

\* dedup.mark_url_seen(url)
CanonMark ==
    /\ canon.phase = 2
    /\ DedupCall("mark_url_seen", canon.url, mark_url_seen(dedup, redis_kv, canon.url, FALSE), FALSE)
    /\ canon' = [canon EXCEPT !.phase = 3]
    /\ UNCHANGED nonCanonVars

\* dedup.is_url_seen(other)
CanonQuery ==
    /\ canon.phase = 3
    /\ LET r == is_url_seen(dedup, redis_kv, canon.other, FALSE)
       IN  /\ DedupCall("is_url_seen", canon.other, r, FALSE)
           /\ canon' = [canon EXCEPT !.seen = r.ret, !.phase = 4]
    /\ UNCHANGED nonCanonVars

CanonNext ==
    \/ CanonCall
    \/ CanonAgain
    \/ CanonMark
    \/ CanonQuery

CanonSpec == CanonInit /\ [][CanonNext]_vars

\* C27: the result of canonicalize is the url up to its first '#' (the whole
\* url when it has none), and canonicalize leaves its own result as it is.
C27_FragmentCutAndIdempotent ==
    /\ canon.phase >= 1 =>
        /\ Len(canon.out) <= Len(canon.url)
        /\ canon.out = SubSeq(canon.url, 1, Len(canon.out))
        /\ \A i \in 1..Len(canon.out) : canon.out[i] # Ord("#")
        /\ Len(canon.out) < Len(canon.url) => canon.url[Len(canon.out) + 1] = Ord("#")
    /\ canon.phase >= 2 => canon.again = canon.out

\* canonicalize has been applied twice to a url that holds two '#'
C27_Witness ==
    /\ canon.phase >= 2
    /\ Cardinality({i \in 1..Len(canon.url) : canon.url[i] = Ord("#")}) >= 2
    /\ canon.out # canon.url
    /\ canon.out # <<>>

\* C28: two spellings of one url (the case of the host, the default port,
\* a fragment, the order of the query parameters) have the same canonical
\* form, and is_url_seen of the one is true once the other is marked.
C28_SpellingsShareCanonicalForm ==
    /\ canon.phase >= 1 => canon.out = canon.other_out
    /\ canon.phase >= 4 => canon.seen

\* ---------------------------------------------------------------------------
\* FetchSpec: one thread sets max_redirects_ and fetches urls whose servers
\* answer with a chain of redirects and then with a last answer.

\* n redirects, each to the next url, and the last answer after them
RedirectChain(n, last) ==
    [i \in 1..(n + 1) |->
        IF i <= n THEN [status |-> 302, location |-> UrlB, body |-> <<>>] ELSE last]

\* the last answers: a page, a missing page, a redirect that names no Location
LastAnswers ==
    {[status |-> 200, location |-> <<>>, body |-> PageA],
     [status |-> 404, location |-> <<>>, body |-> PageB],
     [status |-> 301, location |-> <<>>, body |-> <<>>]}

FetchInit ==
    /\ now = 0
    /\ pc = "fetch_api"
    /\ task = CrawlTask
    /\ fetch_result = FetchResult
    /\ doc = ParsedDocument
    /\ sched = SchedulerInit
    /\ dedup = DedupInit
    /\ redis_kv = {}
    /\ fetcher = FetcherInit
    /\ indexer = IndexerInit
    /\ storage = {}
    /\ last_op = NoOp
    /\ degraded = FALSE
    /\ marked_urls = {}
    /\ indexed = {}
    /\ fetch_log = <<>>
    /\ retry_log = <<>>
    /\ fetched_at = <<>>
    /\ dequeued_at = 0
    /\ max_retry_count = 0
    /\ allocated = <<>>
    /\ queue_mutex_ = "free"
    /\ ctl = <<"idle">>
    /\ workers = 0
    /\ admitted = <<>>
    /\ got = [ret |-> FALSE, calls |-> 0]
    /\ CallInit

nonFetchVars == <<now, pc, task, fetch_result, doc, sched, dedup, redis_kv, indexer, storage,
                  last_op, degraded, marked_urls, indexed, fetch_log, retry_log, fetched_at,
                  dequeued_at, max_retry_count, allocated, queue_mutex_, ctl, workers, admitted,
                  got, searched, canon, backoff_mutex_, callers>>

\* fetcher.set_max_redirects(max); hops keeps the fetches made under the
\* value that is set
FetchSetMaxRedirects ==
    /\ pc = "fetch_api"
    /\ \E max \in 0..MaxRedirectsSet :
        hops' = [NoHops EXCEPT !.max_redirects_ = max]
    /\ UNCHANGED fetcher
    /\ UNCHANGED nonFetchVars

\* fetcher.fetch(url), the servers answering with a chain of up to
\* max_redirects_ + 2 redirects
FetchCall ==
    /\ pc = "fetch_api"
    /\ fetcher.total_fetches_ < MaxFetchCalls
    /\ \E n \in 0..(hops.max_redirects_ + 2), last \in LastAnswers :
        LET responses == RedirectChain(n, last)
            r == fetch_following(fetcher, hops.max_redirects_, responses)
        IN  /\ fetcher' = r.f
            /\ hops' = [hops EXCEPT !.responses = responses, !.called = TRUE, !.result = r.result]
    /\ UNCHANGED nonFetchVars

FetchNext ==
    \/ FetchSetMaxRedirects
    \/ FetchCall

FetchSpec == FetchInit /\ [][FetchNext]_vars

\* the number of redirects at the head of the chain of answers
RedirectsOf(responses) ==
    Cardinality({i \in 1..Len(responses) :
                    \A j \in 1..i : /\ responses[j].status >= 300
                                    /\ responses[j].status < 400
                                    /\ responses[j].location # <<>>})

IsPage(answer) == answer.status >= 200 /\ answer.status < 300

\* C29: a fetch whose chain has exactly max_redirects_ redirects and then a
\* 2xx answer succeeds, with the body of that answer; a fetch whose chain has
\* max_redirects_ + 1 redirects fails with "Too many redirects".
C29_RedirectBound ==
    hops.called =>
        LET n == RedirectsOf(hops.responses)
        IN  /\ (n = hops.max_redirects_ /\ IsPage(hops.responses[n + 1])) =>
                    /\ hops.result.success
                    /\ hops.result.content = hops.responses[n + 1].body
                    /\ Len(hops.result.redirects) = n
            /\ n = hops.max_redirects_ + 1 =>
                    /\ ~hops.result.success
                    /\ hops.result.error_message = "Too many redirects"

\* a fetch with the default max_redirects_ has followed that many redirects
\* to a page, after an earlier fetch had failed on one redirect more
C29_Witness ==
    /\ hops.called
    /\ hops.max_redirects_ = max_redirects_default
    /\ RedirectsOf(hops.responses) = hops.max_redirects_
    /\ hops.result.success
    /\ fetcher.failed_fetches_ = 1
    /\ fetcher.successful_fetches_ = 1

\* ---------------------------------------------------------------------------
\* LockSpec: the caller threads of LockThreads call add_url, get_next_task
\* and mark_failed on one started Scheduler, statement by statement; stop()
\* may clear running_ at any time.  A lock statement is passed when the
\* mutex is free; a return releases the mutexes the guards of the call hold.

\* the bodies of the calls, as the statements that take and release the two
\* mutexes and the statements between them
add_url_body == <<"lock queue_mutex_", "push task", "unlock queue_mutex_">>

\* a mark_failed that holds the backoff mutex around the whole call
mark_failed_body_backoff_outermost ==
    <<"lock backoff_mutex_", "lock queue_mutex_", "push retry", "unlock queue_mutex_",
      "set backoff", "unlock backoff_mutex_">>

mark_failed_body ==
    <<"lock queue_mutex_", "push retry", "unlock queue_mutex_",
      "lock backoff_mutex_", "set backoff", "unlock backoff_mutex_">>

get_next_task_body ==
    <<"lock queue_mutex_", "wait and pop", "check retry time",
      "lock backoff_mutex_", "find backoff", "unlock backoff_mutex_", "check backoff">>

BodyOf(op) ==
    CASE op = "add_url" -> add_url_body
      [] op = "mark_failed" -> mark_failed_body
      [] op = "get_next_task" -> get_next_task_body
      [] op = "idle" -> <<>>

\* the statement caller t is at, "" when it is in no call
StatementOf(t) ==
    IF callers[t].op = "idle" THEN "" ELSE BodyOf(callers[t].op)[callers[t].step]

LockInit ==
    /\ now = 0
    /\ pc = "lock_api"
    /\ task = CrawlTask
    /\ fetch_result = FetchResult
    /\ doc = ParsedDocument
    /\ sched = start(SchedulerInit)
    /\ dedup = DedupInit
    /\ redis_kv = {}
    /\ fetcher = FetcherInit
    /\ indexer = IndexerInit
    /\ storage = {}
    /\ last_op = NoOp
    /\ degraded = FALSE
    /\ marked_urls = {}
    /\ indexed = {}
    /\ fetch_log = <<>>
    /\ retry_log = <<>>
    /\ fetched_at = <<>>
    /\ dequeued_at = 0
    /\ max_retry_count = 0
    /\ allocated = <<>>
    /\ queue_mutex_ = "free"
    /\ ctl = <<"idle">>
    /\ workers = 0
    /\ admitted = <<>>
    /\ got = [ret |-> FALSE, calls |-> 0]
    /\ CallInit

nonLockVars == <<now, pc, task, fetch_result, doc, dedup, redis_kv, fetcher, indexer, storage,
                 last_op, degraded, marked_urls, indexed, fetch_log, retry_log, fetched_at,
                 dequeued_at, max_retry_count, allocated, ctl, workers, admitted, got,
                 searched, canon, hops>>

\* caller t goes on to the next statement of its call, or returns after the
\* last one
Advance(t, c) ==
    IF c.step = Len(BodyOf(c.op))
    THEN [callers EXCEPT ![t] = [c EXCEPT !.op = "idle", !.step = 0]]
    ELSE [callers EXCEPT ![t] = [c EXCEPT !.step = @ + 1]]

\* caller t returns from get_next_task: the unique_lock releases queue_mutex_
ReturnFromGetNextTask(t, c) ==
    /\ callers' = [callers EXCEPT ![t] = [c EXCEPT !.op = "idle", !.step = 0]]
    /\ queue_mutex_' = IF queue_mutex_ = t THEN "free" ELSE queue_mutex_

\* a caller enters add_url (with a valid url), mark_failed(url, true) or
\* get_next_task
LockCall(t) ==
    /\ callers[t].op = "idle"
    /\ \E op \in {"add_url", "mark_failed", "get_next_task"} :
        /\ op # "get_next_task" => callers[t].calls < MaxLockCalls
        /\ callers' = [callers EXCEPT ![t] =
                          [@ EXCEPT !.op = op, !.step = 1, !.url = UrlA,
                                    !.calls = IF op = "get_next_task" THEN @ ELSE @ + 1]]
    /\ UNCHANGED <<sched, queue_mutex_, backoff_mutex_>>
    /\ UNCHANGED nonLockVars

\* std::lock_guard / std::unique_lock on queue_mutex_
LockQueueMutex(t) ==
    /\ StatementOf(t) = "lock queue_mutex_"
    /\ queue_mutex_ = "free"
    /\ queue_mutex_' = t
    /\ callers' = Advance(t, callers[t])
    /\ UNCHANGED <<sched, backoff_mutex_>>
    /\ UNCHANGED nonLockVars

\* the end of the block that holds queue_mutex_
UnlockQueueMutex(t) ==
    /\ StatementOf(t) = "unlock queue_mutex_"
    /\ queue_mutex_' = "free"
    /\ callers' = Advance(t, callers[t])
    /\ UNCHANGED <<sched, backoff_mutex_>>
    /\ UNCHANGED nonLockVars

\* std::lock_guard on backoff_mutex_, in update_domain_backoff and can_fetch_domain
LockBackoffMutex(t) ==
    /\ StatementOf(t) = "lock backoff_mutex_"
    /\ backoff_mutex_ = "free"
    /\ backoff_mutex_' = t
    /\ callers' = Advance(t, callers[t])
    /\ UNCHANGED <<sched, queue_mutex_>>
    /\ UNCHANGED nonLockVars

\* the return of update_domain_backoff or can_fetch_domain
UnlockBackoffMutex(t) ==
    /\ StatementOf(t) = "unlock backoff_mutex_"
    /\ backoff_mutex_' = "free"
    /\ callers' = Advance(t, callers[t])
    /\ UNCHANGED <<sched, queue_mutex_>>
    /\ UNCHANGED nonLockVars

\* add_url: task_queue_.push(task); total_scheduled_++
LockPushTask(t) ==
    /\ StatementOf(t) = "push task"
    /\ sched' = add_url(sched, callers[t].url, 0, now).s
    /\ callers' = Advance(t, callers[t])
    /\ UNCHANGED <<queue_mutex_, backoff_mutex_>>
    /\ UNCHANGED nonLockVars

\* mark_failed: task_queue_.push(task) of the retry
LockPushRetry(t) ==
    /\ StatementOf(t) = "push retry"
    /\ LET retry == [CrawlTask EXCEPT !.url = callers[t].url, !.retry_count = 1,
                                      !.next_retry_time = now + scheduler_retry_backoff_ms_]
       IN  sched' = [sched EXCEPT !.task_queue_ = QueuePush(@, retry)]
    /\ callers' = Advance(t, callers[t])
    /\ UNCHANGED <<queue_mutex_, backoff_mutex_>>
    /\ UNCHANGED nonLockVars

\* update_domain_backoff: the write of domain_backoff_[domain]
LockSetBackoff(t) ==
    /\ StatementOf(t) = "set backoff"
    /\ sched' = update_domain_backoff(sched, extract_domain(callers[t].url), now)
    /\ callers' = Advance(t, callers[t])
    /\ UNCHANGED <<queue_mutex_, backoff_mutex_>>
    /\ UNCHANGED nonLockVars

\* get_next_task: the wait loop is left; false on an empty queue, else
\* task = task_queue_.top(); task_queue_.pop()
LockWaitAndPop(t) ==
    /\ StatementOf(t) = "wait and pop"
    /\ ~WaitLoopContinues(sched)
    /\ IF sched.task_queue_ = <<>>
       THEN /\ ReturnFromGetNextTask(t, callers[t])
            /\ UNCHANGED sched
       ELSE /\ sched' = [sched EXCEPT !.task_queue_ = QueuePop(@)]
            /\ callers' = Advance(t, [callers[t] EXCEPT !.task = QueueTop(sched.task_queue_)])
            /\ UNCHANGED queue_mutex_
    /\ UNCHANGED backoff_mutex_
    /\ UNCHANGED nonLockVars

\* get_next_task: a task that is not due is pushed back and false returned
LockCheckRetryTime(t) ==
    /\ StatementOf(t) = "check retry time"
    /\ IF now < callers[t].task.next_retry_time
       THEN /\ sched' = [sched EXCEPT !.task_queue_ = QueuePush(@, callers[t].task)]
            /\ ReturnFromGetNextTask(t, callers[t])
       ELSE /\ callers' = Advance(t, callers[t])
            /\ UNCHANGED <<sched, queue_mutex_>>
    /\ UNCHANGED backoff_mutex_
    /\ UNCHANGED nonLockVars

\* can_fetch_domain: the lookup in domain_backoff_
LockFindBackoff(t) ==
    /\ StatementOf(t) = "find backoff"
    /\ callers' = Advance(t, [callers[t] EXCEPT
                                 !.can = can_fetch_domain(sched, extract_domain(callers[t].task.url), now)])
    /\ UNCHANGED <<sched, queue_mutex_, backoff_mutex_>>
    /\ UNCHANGED nonLockVars

\* get_next_task: a task of a domain in backoff is pushed back and false
\* returned; else true is returned
LockCheckBackoff(t) ==
    /\ StatementOf(t) = "check backoff"
    /\ sched' = IF callers[t].can THEN sched
                ELSE [sched EXCEPT !.task_queue_ = QueuePush(@, callers[t].task)]
    /\ ReturnFromGetNextTask(t, callers[t])
    /\ UNCHANGED backoff_mutex_
    /\ UNCHANGED nonLockVars

\* stop(): running_ = false, and the worker threads are joined
LockStop ==
    /\ sched.running_
    /\ sched' = stop(sched)
    /\ UNCHANGED <<queue_mutex_, backoff_mutex_, callers>>
    /\ UNCHANGED nonLockVars

LockNext ==
    \/ LockStop
    \/ \E t \in LockThreads :
        \/ LockCall(t)
        \/ LockQueueMutex(t)
        \/ UnlockQueueMutex(t)
        \/ LockBackoffMutex(t)
        \/ UnlockBackoffMutex(t)
        \/ LockPushTask(t)
        \/ LockPushRetry(t)
        \/ LockSetBackoff(t)
        \/ LockWaitAndPop(t)
        \/ LockCheckRetryTime(t)
        \/ LockFindBackoff(t)
        \/ LockCheckBackoff(t)

LockSpec == LockInit /\ [][LockNext]_vars

\* caller t is at a lock statement for the mutex that caller h holds
WaitsFor(t, h) ==
    \/ StatementOf(t) = "lock queue_mutex_" /\ queue_mutex_ = h
    \/ StatementOf(t) = "lock backoff_mutex_" /\ backoff_mutex_ = h

\* C30: no caller is about to take the queue mutex while it holds the
\* backoff mutex, and no callers of add_url, get_next_task and mark_failed
\* wait for each other's mutexes (nor one for a mutex it holds itself).
C30_QueueThenBackoff ==
    /\ \A t \in LockThreads :
        ~(StatementOf(t) = "lock queue_mutex_" /\ backoff_mutex_ = t)
    /\ \A t, h \in LockThreads : ~(WaitsFor(t, h) /\ WaitsFor(h, t))

\* a caller in get_next_task holds the queue mutex and waits for the backoff
\* mutex, which a caller in mark_failed holds after it released the queue
\* mutex
C30_Witness ==
    \E t, m \in LockThreads :
        /\ callers[t].op = "get_next_task" /\ queue_mutex_ = t /\ WaitsFor(t, m)
        /\ callers[m].op = "mark_failed" /\ StatementOf(m) = "set backoff"

\* ---------------------------------------------------------------------------
\* SnapshotSpec: the callers of IndexCallers call index_document and search
\* on one Indexer; index_document runs statement by statement, search reads
\* the index once it has the mutex.  ctl[c] is <<call, position, argument,
\* doc.doc_id, the terms still to loop over, doc_length>>.
SnapshotInputs == {DocOfText(UrlA, TextCatDog), DocOfText(UrlB, TextCat), DocEmptyTerm}

SnapshotQueries == {TextCatDog}

SnapshotInit ==
    /\ now = 0
    /\ pc = "snapshot_api"
    /\ task = CrawlTask
    /\ fetch_result = FetchResult
    /\ doc = ParsedDocument
    /\ sched = SchedulerInit
    /\ dedup = DedupInit
    /\ redis_kv = {}
    /\ fetcher = FetcherInit
    /\ indexer = IndexerInit
    /\ storage = {}
    /\ last_op = NoOp
    /\ degraded = FALSE
    /\ marked_urls = {}
    /\ indexed = {}
    /\ fetch_log = <<>>
    /\ retry_log = <<>>
    /\ fetched_at = <<>>
    /\ dequeued_at = 0
    /\ max_retry_count = 0
    /\ allocated = <<>>
    /\ queue_mutex_ = "free"
    /\ ctl = [c \in IndexCallers |-> Idle]
    /\ workers = 0
    /\ admitted = <<>>
    /\ got = [ret |-> FALSE, calls |-> 0]
    /\ CallInit

nonSnapshotVars == <<now, pc, task, fetch_result, doc, sched, dedup, redis_kv, fetcher, storage,
                     last_op, degraded, marked_urls, indexed, fetch_log, retry_log, fetched_at,
                     dequeued_at, max_retry_count, allocated, queue_mutex_, workers, admitted, got,
                     canon, hops, backoff_mutex_, callers>>

\* caller c is in call, at position
InCall(c, call, position) == ctl[c] # Idle /\ ctl[c][1] = call /\ ctl[c][2] = position

\* the index_document calls made so far, those in progress included
SnapshotCalls ==
    (indexer.next_doc_id_ - 1)
    + Cardinality({c \in IndexCallers : InCall(c, "index_document", "lock")
                                        \/ InCall(c, "index_document", "doc_id")})

\* index_document(parsed_doc) or search(query) is called
SnapshotCall(c) ==
    /\ ctl[c] = Idle
    /\ \/ /\ SnapshotCalls < MaxSnapshotDocs
          /\ \E parsed_doc \in SnapshotInputs :
              ctl' = [ctl EXCEPT ![c] = <<"index_document", "lock", parsed_doc, 0, {}, 0>>]
       \/ \E query \in SnapshotQueries :
              ctl' = [ctl EXCEPT ![c] = <<"search", "lock", query, 0, {}, 0>>]
    /\ UNCHANGED <<indexer, searched>>
    /\ UNCHANGED nonSnapshotVars

\* std::lock_guard<std::mutex> lock(index_mutex_), in index_document and in search
SnapshotLock(c) ==
    /\ Position(c) = "lock"
    /\ index_mutex_free
    /\ ctl' = [ctl EXCEPT ![c][2] = IF ctl[c][1] = "search" THEN "search" ELSE "doc_id"]
    /\ UNCHANGED <<indexer, searched>>
    /\ UNCHANGED nonSnapshotVars

\* doc.doc_id = next_doc_id_++; doc.term_positions = parsed_doc.term_positions
SnapshotDocId(c) ==
    /\ InCall(c, "index_document", "doc_id")
    /\ indexer' = [indexer EXCEPT !.next_doc_id_ = @ + 1]
    /\ ctl' = [ctl EXCEPT ![c][2] = "posting", ![c][4] = indexer.next_doc_id_,
                          ![c][5] = DOMAIN ctl[c][3].term_positions]
    /\ UNCHANGED searched
    /\ UNCHANGED nonSnapshotVars

\* one pass of the loop over parsed_doc.term_positions, which an
\* unordered_map hands over in no specified order
SnapshotPosting(c) ==
    /\ InCall(c, "index_document", "posting")
    /\ \E term \in ctl[c][5] :
        LET positions == ctl[c][3].term_positions[term]
            posting == [doc_id |-> ctl[c][4], positions |-> positions, tf |-> Len(positions)]
            before == IF term \in DOMAIN indexer.inverted_index_
                      THEN indexer.inverted_index_[term] ELSE <<>>
        IN  IF term = <<>>
            THEN /\ ctl' = [ctl EXCEPT ![c][5] = @ \ {term}]
                 /\ UNCHANGED indexer
            ELSE /\ indexer' = [indexer EXCEPT !.inverted_index_ =
                                   [t \in (DOMAIN @) \cup {term} |->
                                       IF t = term THEN push_back(before, posting) ELSE @[t]]]
                 /\ ctl' = [ctl EXCEPT ![c][5] = @ \ {term}, ![c][6] = @ + Len(positions)]
    /\ UNCHANGED searched
    /\ UNCHANGED nonSnapshotVars

\* doc_lengths_[doc.doc_id] = doc_length, after the loop
SnapshotDocLength(c) ==
    /\ InCall(c, "index_document", "posting")
    /\ ctl[c][5] = {}
    /\ indexer' = [indexer EXCEPT !.doc_lengths_ =
                      [i \in (DOMAIN @) \cup {ctl[c][4]} |->
                          IF i = ctl[c][4] THEN ctl[c][6] ELSE @[i]]]
    /\ ctl' = [ctl EXCEPT ![c][2] = "forward"]
    /\ UNCHANGED searched
    /\ UNCHANGED nonSnapshotVars

\* forward_index_[doc.doc_id] = doc
SnapshotForward(c) ==
    /\ InCall(c, "index_document", "forward")
    /\ LET document == [doc_id |-> ctl[c][4], url |-> ctl[c][3].url,
                        text_content |-> ctl[c][3].text_content,
                        term_positions |-> ctl[c][3].term_positions]
       IN  indexer' = [indexer EXCEPT !.forward_index_ =
                          [i \in (DOMAIN @) \cup {ctl[c][4]} |->
                              IF i = ctl[c][4] THEN document ELSE @[i]]]
    /\ ctl' = [ctl EXCEPT ![c][2] = "total"]
    /\ UNCHANGED searched
    /\ UNCHANGED nonSnapshotVars

\* total_documents_++; current_segment_size_++
SnapshotTotal(c) ==
    /\ InCall(c, "index_document", "total")
    /\ indexer' = [indexer EXCEPT !.total_documents_ = @ + 1, !.current_segment_size_ = @ + 1]
    /\ ctl' = [ctl EXCEPT ![c][2] = "avg"]
    /\ UNCHANGED searched
    /\ UNCHANGED nonSnapshotVars

\* the update of avg_doc_length_, the flush of a full segment and the
\* return, which releases index_mutex_
SnapshotAverage(c) ==
    /\ InCall(c, "index_document", "avg")
    /\ \E ix \in {[indexer EXCEPT !.avg_doc_length_ =
                      update_avg_doc_length(@, indexer.total_documents_, ctl[c][6])]} :
        indexer' = IF ix.current_segment_size_ >= max_docs_per_segment_
                   THEN flush_segment(ix) ELSE ix
    /\ ctl' = [ctl EXCEPT ![c] = Idle]
    /\ UNCHANGED searched
    /\ UNCHANGED nonSnapshotVars

\* the body of search, which reads the index, and its return, which
\* releases index_mutex_
SnapshotSearch(c) ==
    /\ InCall(c, "search", "search")
    /\ \E doc_scores \in {score_documents(indexer, query_terms(ctl[c][3]), 1, <<>>)} :
        \E sorted \in scored_docs_sorted(doc_scores) :
            searched' = [query |-> ctl[c][3], topk |-> 10, called |-> TRUE,
                         results |-> build_results(indexer, doc_scores, sorted, 10)]
    /\ ctl' = [ctl EXCEPT ![c] = Idle]
    /\ UNCHANGED indexer
    /\ UNCHANGED nonSnapshotVars

SnapshotNext ==
    \E c \in IndexCallers :
        \/ SnapshotCall(c)
        \/ SnapshotLock(c)
        \/ SnapshotDocId(c)
        \/ SnapshotPosting(c)
        \/ SnapshotDocLength(c)
        \/ SnapshotForward(c)
        \/ SnapshotTotal(c)
        \/ SnapshotAverage(c)
        \/ SnapshotSearch(c)

SnapshotSpec == SnapshotInit /\ [][SnapshotNext]_vars

\* the terms that have a posting for doc_id
TermsOf(ix, doc_id) == {e[1] : e \in PostingsOf(ix, doc_id)}

\* every trace of document doc_id is in the index
FullyAdmitted(ix, doc_id) ==
    /\ doc_id \in DOMAIN ix.forward_index_
    /\ doc_id \in DOMAIN ix.doc_lengths_
    /\ TermsOf(ix, doc_id) = {t \in DOMAIN ix.forward_index_[doc_id].term_positions : t # <<>>}
    /\ ix.doc_lengths_[doc_id] = PositionCount(ix, doc_id)

\* no trace of document doc_id is in the index
NotAdmitted(ix, doc_id) ==
    /\ doc_id \notin DOMAIN ix.forward_index_
    /\ doc_id \notin DOMAIN ix.doc_lengths_
    /\ PostingsOf(ix, doc_id) = {}

\* avg_doc_length_ after the updates for the documents 1..n, in this order
RECURSIVE AverageAfter(_, _)
AverageAfter(ix, n) ==
    IF n = 0 THEN F64FromInt(0)
    ELSE update_avg_doc_length(AverageAfter(ix, n - 1), n, ix.doc_lengths_[n])

\* the index holds the documents 1..n whole and nothing of any other
AdmittedWhole(ix, n) ==
    /\ \A doc_id \in 1..(ix.next_doc_id_ - 1) :
        IF doc_id <= n THEN FullyAdmitted(ix, doc_id) ELSE NotAdmitted(ix, doc_id)
    /\ ix.total_documents_ = n
    /\ ix.avg_doc_length_ = AverageAfter(ix, n)

\* C31: the index a search reads holds, for each document, either all of
\* its postings, its forward entry, its length, its count in
\* total_documents_ and its share of avg_doc_length_, or none of them, also
\* when another caller is in index_document.
C31_SearchSeesWholeDocuments ==
    \A c \in IndexCallers :
        InCall(c, "search", "search") =>
            \E n \in 0..(indexer.next_doc_id_ - 1) : AdmittedWhole(indexer, n)

\* a search reads an index of one document while the other caller is in
\* index_document, waiting for the mutex
C31_Witness ==
    \E c, d \in IndexCallers :
        /\ InCall(c, "search", "search")
        /\ InCall(d, "index_document", "lock")
        /\ indexer.total_documents_ = 1

\* ---------------------------------------------------------------------------
\* FlushSpec: one thread calls index_document, flush_segment and
\* merge_segments in any order.  ctl is the last call and the Indexer as it
\* was when the call was made.
FlushInit ==
    /\ now = 0
    /\ pc = "flush_api"
    /\ task = CrawlTask
    /\ fetch_result = FetchResult
    /\ doc = ParsedDocument
    /\ sched = SchedulerInit
    /\ dedup = DedupInit
    /\ redis_kv = {}
    /\ fetcher = FetcherInit
    /\ indexer = IndexerInit
    /\ storage = {}
    /\ last_op = NoOp
    /\ degraded = FALSE
    /\ marked_urls = {}
    /\ indexed = {}
    /\ fetch_log = <<>>
    /\ retry_log = <<>>
    /\ fetched_at = <<>>
    /\ dequeued_at = 0
    /\ max_retry_count = 0
    /\ allocated = <<>>
    /\ queue_mutex_ = "free"
    /\ ctl = Idle
    /\ workers = 0
    /\ admitted = <<>>
    /\ got = [ret |-> FALSE, calls |-> 0]
    /\ CallInit

nonFlushVars == <<now, pc, task, fetch_result, doc, sched, dedup, redis_kv, fetcher, storage,
                  last_op, degraded, marked_urls, indexed, fetch_log, retry_log, fetched_at,
                  dequeued_at, max_retry_count, allocated, queue_mutex_, workers, admitted, got,
                  callVars>>

\* indexer.index_document(parsed_doc), from the call to the return
FlushIndexDocument ==
    /\ indexer.total_documents_ < MaxFlushDocs
    /\ \E parsed_doc \in SnapshotInputs :
        indexer' = index_document(indexer, parsed_doc)
    /\ ctl' = <<"index_document", indexer>>
    /\ UNCHANGED nonFlushVars

\* indexer.flush_segment()
FlushSegmentCall ==
    /\ indexer' = flush_segment(indexer)
    /\ ctl' = <<"flush_segment", indexer>>
    /\ UNCHANGED nonFlushVars

\* Indexer::merge_segments
merge_segments(ix) == flush_segment(ix)

\* indexer.merge_segments()
FlushMergeSegments ==
    /\ indexer' = merge_segments(indexer)
    /\ ctl' = <<"merge_segments", indexer>>
    /\ UNCHANGED nonFlushVars

FlushNext ==
    \/ FlushIndexDocument
    \/ FlushSegmentCall
    \/ FlushMergeSegments

FlushSpec == FlushInit /\ [][FlushNext]_vars

\* the fields of the in-memory index that a flush is to leave alone
InMemoryIndex(ix) ==
    <<ix.inverted_index_, ix.forward_index_, ix.doc_lengths_, ix.total_documents_,
      ix.avg_doc_length_, ix.next_doc_id_>>

\* C32 as stated: after flush_segment the in-memory index is as before, the
\* current segment size is 0 and the segment count is one more than before.
C32_FlushResetsAndCounts ==
    ctl[1] = "flush_segment" =>
        /\ InMemoryIndex(indexer) = InMemoryIndex(ctl[2])
        /\ indexer.current_segment_size_ = 0
        /\ indexer.segment_count_ = ctl[2].segment_count_ + 1

\* C32, amended: after flush_segment the in-memory index is as before and
\* the current segment size is 0; the segment count is one more than before
\* when the current segment held a document, and as before when it held none.
C32_FlushKeepsIndexInMemory ==
    ctl[1] = "flush_segment" =>
        /\ InMemoryIndex(indexer) = InMemoryIndex(ctl[2])
        /\ indexer.current_segment_size_ = 0
        /\ indexer.segment_count_ =
               ctl[2].segment_count_ + (IF ctl[2].current_segment_size_ = 0 THEN 0 ELSE 1)

\* flush_segment has run on a segment of two documents, after an earlier flush
C32_Witness ==
    /\ ctl[1] = "flush_segment"
    /\ ctl[2].current_segment_size_ = 2
    /\ ctl[2].segment_count_ = 1
    /\ Cardinality(DOMAIN indexer.forward_index_) = 3

\* ---------------------------------------------------------------------------
\* The gates of get_next_task (specification SchedulerSpec)

\* the tasks of the queue q, each with the number of times q holds it
QueuedTasks(q) ==
    [x \in {q[i] : i \in 1..Len(q)} |-> Cardinality({i \in 1..Len(q) : q[i] = x})]

\* C33: a task that get_next_task returns is due (its next_retry_time is
\* not after now) and its domain has no backoff later than now; a call that
\* returns false leaves the same tasks in the queue, each as many times as
\* before.
C33_ReturnedTaskPassesBothGates ==
    [][ got'.calls = got.calls + 1 =>
            IF got'.ret
            THEN /\ task'.next_retry_time <= now
                 /\ \A d \in DOMAIN sched'.domain_backoff_ :
                        d = extract_domain(task'.url) => sched'.domain_backoff_[d] <= now
            ELSE QueuedTasks(sched'.task_queue_) = QueuedTasks(sched.task_queue_) ]_vars

\* get_next_task has popped a task that is due, found its domain in backoff,
\* pushed it back and returned false
C33_Witness ==
    /\ pc = "sched_api"
    /\ got.calls > 0 /\ ~got.ret
    /\ \E i \in 1..Len(sched.task_queue_) : sched.task_queue_[i] = task
    /\ task.next_retry_time <= now
    /\ ~can_fetch_domain(sched, extract_domain(task.url), now)

\* C34: the task that mark_failed(url, true) puts into the queue has the url
\* and the priority of the failed task and a retry_count one above its
\* retry_count.
C34_RetryKeepsUrlAndPriority ==
    [][ (pc = "sched_api_task" /\ pc' = "sched_api"
         /\ Len(sched'.task_queue_) = Len(sched.task_queue_) + 1) =>
            LET retry == [task EXCEPT !.retry_count = @ + 1,
                                      !.next_retry_time = now + scheduler_retry_backoff_ms_]
            IN  QueuedTasks(sched'.task_queue_) =
                    QueuedTasks(Append(sched.task_queue_, retry)) ]_vars

\* ---------------------------------------------------------------------------
\* The segment counters and index_mutex_ (specification IndexerSpec)

\* C35: current_segment_size_ and segment_count_ are changed by flush_segment
\* only while the caller of flush_segment holds index_mutex_: either the step
\* is the end of an index_document call that holds it, or no caller of
\* index_document is between its lock_guard and its return.
C35_FlushUnderIndexMutex ==
    [][ indexer'.segment_count_ # indexer.segment_count_ =>
            \/ \E c \in IndexCallers : Position(c) = "body" /\ ctl'[c] = Idle
            \/ index_mutex_free ]_vars

\* ---------------------------------------------------------------------------
\* ParseSpec: Parser::parse tokenizes a text and builds term_positions, for
\* every text of at most MaxTextLen characters of ParseAlphabet.
ParseAlphabet == {Ord("a"), Ord("B"), Ord("b"), Ord("_"), Ord(" ")}

ParseTexts == UNION {[1..n -> ParseAlphabet] : n \in 0..MaxTextLen}

ParseInit ==
    /\ now = 0
    /\ pc = "parse_api"
    /\ task = CrawlTask
    /\ fetch_result = FetchResult
    /\ doc \in {[ParsedDocument EXCEPT !.url = UrlA, !.text_content = text] : text \in ParseTexts}
    /\ sched = SchedulerInit
    /\ dedup = DedupInit
    /\ redis_kv = {}
    /\ fetcher = FetcherInit
    /\ indexer = IndexerInit
    /\ storage = {}
    /\ last_op = NoOp
    /\ degraded = FALSE
    /\ marked_urls = {}
    /\ indexed = {}
    /\ fetch_log = <<>>
    /\ retry_log = <<>>
    /\ fetched_at = <<>>
    /\ dequeued_at = 0
    /\ max_retry_count = 0
    /\ allocated = <<>>
    /\ queue_mutex_ = "free"
    /\ ctl = Idle
    /\ workers = 0
    /\ admitted = <<>>
    /\ got = [ret |-> FALSE, calls |-> 0]
    /\ CallInit

\* parse from "doc.tokens = tokenize(doc.text_content)" to its return
ParseCall ==
    /\ pc = "parse_api"
    /\ doc' = [doc EXCEPT !.tokens = tokenize(doc.text_content),
                          !.term_positions = TermPositionsFrom(tokenize(doc.text_content), 1, <<>>)]
    /\ pc' = "parsed"
    /\ UNCHANGED <<now, task, fetch_result, sched, dedup, redis_kv, fetcher, indexer, storage,
                   last_op, degraded, marked_urls, indexed, fetch_log, retry_log, fetched_at,
                   dequeued_at, max_retry_count, allocated, queue_mutex_, ctl, workers, admitted,
                   got, callVars>>

ParseNext == ParseCall

ParseSpec == ParseInit /\ [][ParseNext]_vars

\* C36: in a parsed document the position list of every term is strictly
\* increasing, every position is below the number of raw tokens, and no
\* position is in the lists of two terms.
C36_PositionsAreRawTokenIndexes ==
    pc = "parsed" =>
        LET tp == doc.term_positions
        IN  /\ \A t \in DOMAIN tp :
                /\ \A i, j \in 1..Len(tp[t]) : i < j => tp[t][i] < tp[t][j]
                /\ \A i \in 1..Len(tp[t]) : tp[t][i] >= 0 /\ tp[t][i] < Len(doc.tokens)
            /\ \A t, u \in DOMAIN tp :
                t # u => \A i \in 1..Len(tp[t]), j \in 1..Len(tp[u]) : tp[t][i] # tp[u][j]

\* a parsed text of three raw tokens: one term at the positions 0 and 2, and
\* between them a token that normalizes to nothing
C36_Witness ==
    /\ pc = "parsed"
    /\ Len(doc.tokens) = 3
    /\ \E t \in DOMAIN doc.term_positions : doc.term_positions[t] = <<0, 2>>
    /\ Cardinality(DOMAIN doc.term_positions) = 1

\* ---------------------------------------------------------------------------
\* The wait of get_next_task and the producers (specification
\* FairProducerSpec): FairFrontierSpec, and the thread that calls add_url
\* gets queue_mutex_ when it stays free
FairProducerSpec ==
    /\ FairFrontierSpec
    /\ WF_vars(ThreadAddUrlPush)

\* C37: when add_url is called while the consumer waits in get_next_task on
\* the empty queue of a running scheduler, add_url eventually returns with
\* its url pushed and the consumer eventually is given a task.
C37_ProducerGetsPastWaitingConsumer ==
    (ctl[1] = "add_url" /\ pc = "get_next_task" /\ WaitLoopContinues(sched))
        ~> (ctl = Idle /\ got.ret)

\* ---------------------------------------------------------------------------
\* The accounting of the frontier in the run of main() (specification Spec)

\* C38: between two iterations of the loop of main, and after it, the urls
\* add_url has counted are the tasks in the queue, the completed and the
\* failed ones: total_scheduled_ = queue_size() + total_completed_ +
\* total_failed_; inside an iteration the dequeued task is the one url
\* accounted for by none of the three.
C38_FrontierAccountingBalances ==
    LET accounted == queue_size(sched) + sched.total_completed_ + sched.total_failed_
    IN  /\ pc \in {"get_next_task", "sleep", "cleanup", "done"}
               => sched.total_scheduled_ = accounted
        /\ pc \in {"is_url_seen", "fetch", "check_fetch", "is_content_seen", "parse",
                   "index_document", "save_document", "mark_url_seen", "mark_content_seen",
                   "add_links", "mark_completed"}
               => sched.total_scheduled_ = accounted + 1

\* between two iterations, after a page with links was indexed, a task was
\* completed as a duplicate or indexed too, and a failed fetch was queued
\* again
C38_Witness ==
    /\ pc = "get_next_task"
    /\ sched.total_completed_ >= 2
    /\ sched.total_scheduled_ > Len(seed_urls)
    /\ \E url \in DOMAIN retry_log : retry_log[url].k >= 1
    /\ queue_size(sched) >= 1

\* the doc id the last index_document call allocated
LastAllocated == allocated[Len(allocated)]

\* C39: the doc id main passes to save_document and to mark_content_seen,
\* indexer.total_documents(), is the doc id index_document allocated to the
\* page in the same iteration, and the page is saved under it.
C39_SavedUnderAllocatedDocId ==
    /\ pc \in {"save_document", "mark_url_seen", "mark_content_seen"}
           => total_documents(indexer) = LastAllocated
    /\ pc \in {"mark_url_seen", "mark_content_seen"}
           => <<LastAllocated, task.url>> \in storage

\* the second page of the run has been indexed and saved, and its content
\* digest is about to be recorded
C39_Witness ==
    /\ pc = "mark_content_seen"
    /\ Len(allocated) = 2
    /\ Cardinality(storage) = 2

\* C40: in a run of main no canonical url is indexed twice: two
\* index_document calls of the run are for urls with different canonical
\* forms.
C40_NoUrlIndexedTwice ==
    \A e, f \in indexed : canonicalize(e[1]) = canonicalize(f[1]) => e = f

====
